---- MODULE Spec2Model ----
(***************************************************************************)
(* HederaIntel agent: the HCS-10 OpenConvAI messaging layer                *)
(* (OpenConvAIAgent), its connection registry, message classification,     *)
(* intent routing, asset extraction and chunked publishing.                *)
(*                                                                         *)
(* The subscription callback of TopicMessageQuery is an async function     *)
(* whose promise the transport does not await: the handler of message i+1  *)
(* starts while the handler of message i is suspended at an await.  Each   *)
(* action below is one run-to-completion segment of a handler: from its    *)
(* start, or from the resolution of the promise it awaits, up to its next  *)
(* await or its end.                                                       *)
(***************************************************************************)
EXTENDS Integers, Sequences, FiniteSets, TLC

(***************************************************************************)
(* Bounds of the model.                                                    *)
(***************************************************************************)
\* number of messages the peers publish on the inbound topic
MaxMsgs == 3

\* the same, in the specification the liveness property is checked under
MaxLiveMsgs == 2

\* number of words of a plain-text query
MaxWords == 2

\* length of the serialized messages handed to the publisher
MaxMessageLen == 5

\* how often the clock advances while a message is published and read
MaxTicks == 2

\* const chunkSize = 900 and the 1024 byte ceiling, scaled to the message lengths
\* of the model
ChunkSize == 2

ByteLimit == 3

\* how many messages the router is given
MaxRouterMsgs == 2

\* messages on the topics whose handlers run at the same time
MaxTasks == 3

\* calls of generateReport
MaxReports == 3

\* messages peers submit to the topic of the legacy protocol
MaxServiceMsgs == 2

\* calls of registerHandler after the constructor's
MaxRegistrations == 2

\* calls of the operations of HederaService, AgentProtocol.startListening and
\* OpenConvAIAgent that need a topic
MaxCalls == 3

\* the remote agents (values of msg.operator_id)
Peers == {"X", "Y"}

\* the operations a peer puts in the "op" field
PeerOps == {"connection_request", "close_connection"}

\* `${this.inboundTopicId}@${this.accountId}`
SelfId == "self"

VARIABLES
    inbound,        \* the inbound topic: the sequence of messages published on it
    delivered,      \* how many inbound messages the subscription callback has been invoked for
    handlers,       \* handlers[i]: the invocation of _handleInboundMessage for inbound[i]
    connections,    \* this.connections, a JS Map in insertion order
    subscriptions,  \* connection topics a TopicMessageQuery subscription was opened on
    outbound,       \* the outbound topic: messages published by _publishOutbound
    nextTopic,      \* the next topic id the network allocates
    sent            \* how many messages the peers have published so far

connVars == <<inbound, delivered, handlers, connections, subscriptions,
              outbound, nextTopic, sent>>

VARIABLES
    raw,            \* rawContent of the message _handleInboundMessage is invoked with
    qpc,            \* where the handling of that message stands
    route,          \* the handler _handleInboundMessage passes it to
    queryText,      \* the first argument of _processQuery
    responseType,   \* the type field of what _processQuery returns
    generatorCalls, \* the calls of the report generators _processQuery made
    extracted       \* what a call of _extractAssets returned

queryVars == <<raw, qpc, route, queryText, responseType, generatorCalls, extracted>>

VARIABLES
    publisher,      \* whose _publishChunked runs: OpenConvAIAgent's or HederaService's
    message,        \* the serialized message to publish
    clock,          \* what Date.now() returns
    cpc,            \* where the publishing stands
    chunkIndex,     \* the loop variable i of _publishChunked
    topicLog,       \* the messages submitted to the topic, in order
    buffers,        \* the reader's reassembly buffers, by message id
    completed,      \* the message ids the reader has reassembled
    fed,            \* the positions of topicLog handed to the reader so far
    reassembled     \* the payloads the reader has returned

chunkVars == <<publisher, message, clock, cpc, chunkIndex, topicLog, buffers,
               completed, fed, reassembled>>

VARIABLES
    other           \* a second publish running at the same time on the same topic

concVars == <<other>>

VARIABLES
    channel,        \* the topic whose subscription callback is invoked
    rawContent,     \* the content of the message it is invoked with
    rpc,            \* where the handling of this message stands
    rtext,          \* the first argument of the pending _processQuery call
    inCatch,        \* whether _handleInboundMessage is in its catch block
    failed,         \* whether a generator call failed while handling this message
    answer,         \* the type of the response _processQuery returned
    published,      \* what the agent has submitted, in order
    listening,      \* whether the process and its subscriptions are still there
    arrivals        \* how many messages the callbacks have been invoked for

routerVars == <<channel, rawContent, rpc, rtext, inCatch, failed, answer, published,
                listening, arrivals>>

VARIABLES
    spc             \* where startListening stands

startVars == <<spc>>

VARIABLES
    tasks           \* the messages of the topics and the invocations of their handlers

taskVars == <<tasks>>

VARIABLES
    reportCount,    \* IntelEngine.reportCount
    reports         \* the calls of IntelEngine.generateReport

engineVars == <<reportCount, reports>>

VARIABLES
    serviceTopic,     \* the topic of HederaService: the messages submitted to it
    serviceDelivered, \* how many of them its subscription has delivered
    registrations,    \* the calls of registerHandler, in order
    protocolHandlers, \* AgentProtocol.handlers, a JS Map in insertion order
    lpc,              \* where the callback of AgentProtocol.startListening stands
    lmsg,             \* message.content the callback is invoked with
    invoked,          \* the handler processMessage invoked
    lresponse         \* what processMessage returned

legacyVars == <<serviceTopic, serviceDelivered, registrations, protocolHandlers, lpc,
                lmsg, invoked, lresponse>>

VARIABLES
    topicId,        \* HederaService.topicId
    client,         \* HederaService.client
    opened,         \* how many subscriptions HederaService has opened
    isListening,    \* AgentProtocol.isListening
    starts,         \* the calls of AgentProtocol.startListening and where they stand
    agentTopics,    \* inboundTopicId and outboundTopicId of OpenConvAIAgent
    lastCall,       \* the last operation called and how it ended
    ncalls          \* how many operations were called

serviceVars == <<topicId, client, opened, isListening, starts, agentTopics, lastCall,
                 ncalls>>

VARIABLES
    command,        \* the command the process runs: the legacy listener or the HCS-10 agent
    echoed          \* the agent's own messages its subscriptions have delivered back

echoVars == <<command, echoed>>

lateVars == <<startVars, taskVars, engineVars, legacyVars, serviceVars, echoVars>>

\* what the steps of one part of the model leave alone
notConn == <<queryVars, chunkVars, concVars, routerVars, lateVars>>

notQuery == <<connVars, chunkVars, concVars, routerVars, lateVars>>

notChunk == <<connVars, queryVars, concVars, routerVars, lateVars>>

notRouter == <<queryVars, chunkVars, concVars, lateVars>>

(***************************************************************************)
(* JS Map, as a sequence of entries in insertion order.                    *)
(***************************************************************************)
MapHas(m, k) == \E i \in 1..Len(m) : m[i].key = k

MapIndex(m, k) == CHOOSE i \in 1..Len(m) : m[i].key = k

MapGet(m, k) == m[MapIndex(m, k)].value

\* a set that pushes an entry without looking for the key
MapSetAlwaysAppends(m, k, v) == Append(m, [key |-> k, value |-> v])

\* Map.prototype.set: replaces the value of an existing key in place, appends a new key
MapSet(m, k, v) ==
    IF MapHas(m, k)
    THEN [m EXCEPT ![MapIndex(m, k)] = [key |-> k, value |-> v]]
    ELSE Append(m, [key |-> k, value |-> v])

\* a delete by splice(indexOf(key), 1): index -1 of an absent key removes the last entry
MapDeleteSplice(m, k) ==
    IF \E i \in 1..Len(m) : m[i].key = k
    THEN SelectSeq(m, LAMBDA e : e.key # k)
    ELSE SubSeq(m, 1, Len(m) - 1)

\* Map.prototype.delete: removes the entry of the key, nothing when the key is absent
MapDelete(m, k) == SelectSeq(m, LAMBDA e : e.key # k)

MapSize(m) == Len(m)

MapKeys(m) == {m[i].key : i \in 1..Len(m)}

(***************************************************************************)
(* The inbound topic and the handlers of its messages.                     *)
(***************************************************************************)
\* a structured envelope as a peer publishes it (p = "hcs-10")
Envelope(op, who) == [op |-> op, operator_id |-> who, topic |-> 0]

\* the connection_created envelope of _handleConnectionRequest
Acceptance(t) == [op |-> "connection_created", operator_id |-> SelfId, topic |-> t]

\* the value stored in this.connections (connectedAt, a timestamp, is left out)
ConnEntry(t, who) == [topicId |-> t, requester |-> who]

\* a handler suspended at an await ("create", "submit", "nl"), or ended: "done" by
\* returning from the try block, "nl_done" by returning from the catch block,
\* "rejected" by throwing out of the catch block
Handler(pc, t) == [pc |-> pc, topic |-> t]

InitConn ==
    /\ inbound = << >>
    /\ delivered = 0
    /\ handlers = << >>
    /\ connections = << >>
    /\ subscriptions = {}
    /\ outbound = << >>
    /\ nextTopic = 1
    /\ sent = 0

\* a peer submits an envelope to the public inbound topic
PeerPublishUpTo(n) ==
    /\ sent < n
    /\ \E op \in PeerOps, who \in Peers :
          inbound' = Append(inbound, Envelope(op, who))
    /\ sent' = sent + 1
    /\ UNCHANGED <<delivered, handlers, connections, subscriptions, outbound, nextTopic>>

PeerPublish == PeerPublishUpTo(MaxMsgs)

PeerPublishLive == PeerPublishUpTo(MaxLiveMsgs)

\* a switch that accepts connection requests of an allow-list only
ProtocolStartAllowList(msg) ==
    CASE msg.op = "connection_request" /\ msg.operator_id = "X" -> Handler("create", 0)
      [] OTHER -> Handler("done", 0)

\* _handleProtocolMessage up to its first await: the switch on msg.op
ProtocolStart(msg) ==
    CASE msg.op = "connection_request" -> Handler("create", 0)
      [] msg.op = "close_connection"   -> Handler("done", 0)
      [] OTHER                         -> Handler("done", 0)

\* the registry after the synchronous part of _handleProtocolMessage
ProtocolRegistry(msg, m) ==
    IF msg.op = "close_connection" THEN MapDelete(m, msg.operator_id) ELSE m

\* the subscription callback of startListening is invoked for the next message
Deliver ==
    /\ delivered < Len(inbound)
    /\ LET msg == inbound[delivered + 1] IN
          /\ handlers' = Append(handlers, ProtocolStart(msg))
          /\ connections' = ProtocolRegistry(msg, connections)
    /\ delivered' = delivered + 1
    /\ UNCHANGED <<inbound, subscriptions, outbound, nextTopic, sent>>

\* this.connections.set(requesterId, {topicId, connectedAt, requester})
StoreConnection(m, who, t) == MapSet(m, who, ConnEntry(t, who))

\* the TopicCreateTransaction is executed and its receipt received: the network has
\* allocated a topic, the handler stores the connection and submits the acceptance
CreateResolved(h) ==
    /\ h \in DOMAIN handlers
    /\ handlers[h].pc = "create"
    /\ connections' = StoreConnection(connections, inbound[h].operator_id, nextTopic)
    /\ handlers' = [handlers EXCEPT ![h] = Handler("submit", nextTopic)]
    /\ nextTopic' = nextTopic + 1
    /\ UNCHANGED <<inbound, delivered, subscriptions, outbound, sent>>

\* the acceptance submit resolves: the envelope is on the inbound topic, and the
\* handler subscribes to the connection topic and ends
SubmitResolved(h) ==
    /\ h \in DOMAIN handlers
    /\ handlers[h].pc = "submit"
    /\ inbound' = Append(inbound, Acceptance(handlers[h].topic))
    /\ subscriptions' = subscriptions \cup {handlers[h].topic}
    /\ handlers' = [handlers EXCEPT ![h].pc = "done"]
    /\ UNCHANGED <<delivered, connections, outbound, nextTopic, sent>>

\* a transport call of _handleConnectionRequest throws: the catch of
\* _handleInboundMessage hands the raw content to _handleNaturalLanguage
TransportRejected(h) ==
    /\ h \in DOMAIN handlers
    /\ handlers[h].pc \in {"create", "submit"}
    /\ handlers' = [handlers EXCEPT ![h].pc = "nl"]
    /\ UNCHANGED <<inbound, delivered, connections, subscriptions, outbound, nextTopic, sent>>

\* the data of the response _handleNaturalLanguage publishes
OutboundResponse(h) == [op |-> "response", inResponseTo |-> h]

\* _handleNaturalLanguage in the catch block ends: _processQuery resolved and
\* _publishOutbound submitted the response or logged its publish error, or
\* _processQuery threw and the rejection leaves the callback
NaturalLanguageFallback(h) ==
    /\ h \in DOMAIN handlers
    /\ handlers[h].pc = "nl"
    /\ \/ /\ outbound' = Append(outbound, OutboundResponse(h))
          /\ handlers' = [handlers EXCEPT ![h].pc = "nl_done"]
       \/ /\ outbound' = outbound
          /\ handlers' = [handlers EXCEPT ![h].pc = "nl_done"]
       \/ /\ outbound' = outbound
          /\ handlers' = [handlers EXCEPT ![h].pc = "rejected"]
    /\ UNCHANGED <<inbound, delivered, connections, subscriptions, nextTopic, sent>>

(***************************************************************************)
(* Strings.  A JS string is the sequence of its characters, so that        *)
(* String.prototype.includes is a search for a substring.                  *)
(***************************************************************************)
\* the keywords of _processQuery and the aliases of _extractAssets
S_price == <<"p", "r", "i", "c", "e">>

S_how_much == <<"h", "o", "w", " ", "m", "u", "c", "h">>

S_worth == <<"w", "o", "r", "t", "h">>

S_narrative == <<"n", "a", "r", "r", "a", "t", "i", "v", "e">>

S_trend == <<"t", "r", "e", "n", "d">>

S_signal == <<"s", "i", "g", "n", "a", "l">>

S_hedera == <<"h", "e", "d", "e", "r", "a">>

S_hbar == <<"h", "b", "a", "r">>

S_network == <<"n", "e", "t", "w", "o", "r", "k">>

S_health == <<"h", "e", "a", "l", "t", "h">>

S_capabilit == <<"c", "a", "p", "a", "b", "i", "l", "i", "t">>

S_what_can_you == <<"w", "h", "a", "t", " ", "c", "a", "n", " ", "y", "o", "u">>

S_help == <<"h", "e", "l", "p">>

S_who_are_you == <<"w", "h", "o", " ", "a", "r", "e", " ", "y", "o", "u">>

S_bitcoin == <<"b", "i", "t", "c", "o", "i", "n">>

S_btc == <<"b", "t", "c">>

S_ethereum == <<"e", "t", "h", "e", "r", "e", "u", "m">>

S_eth == <<"e", "t", "h">>

S_solana == <<"s", "o", "l", "a", "n", "a">>

S_sol == <<"s", "o", "l">>

S_avalanche == <<"a", "v", "a", "l", "a", "n", "c", "h", "e">>

S_avax == <<"a", "v", "a", "x">>

S_near == <<"n", "e", "a", "r">>

S_polkadot == <<"p", "o", "l", "k", "a", "d", "o", "t">>

S_dot == <<"d", "o", "t">>

\* other words of the messages the model delivers
S_Price == <<"P", "r", "i", "c", "e">>

S_trends == <<"t", "r", "e", "n", "d", "s">>

S_HBAR == <<"H", "B", "A", "R">>

S_capabilities == <<"c", "a", "p", "a", "b", "i", "l", "i", "t", "i", "e", "s">>

S_BTC == <<"B", "T", "C">>

S_whether == <<"w", "h", "e", "t", "h", "e", "r">>

S_nearly == <<"n", "e", "a", "r", "l", "y">>

S_report == <<"r", "e", "p", "o", "r", "t">>

S_market == <<"m", "a", "r", "k", "e", "t">>

S_hcs_10 == <<"h", "c", "s", "-", "1", "0">>

S_other == <<"o", "t", "h", "e", "r">>

S_query == <<"q", "u", "e", "r", "y">>

S_message == <<"m", "e", "s", "s", "a", "g", "e">>

S_btc_price == <<"b", "t", "c", " ", "p", "r", "i", "c", "e">>

S_null == <<"n", "u", "l", "l">>

S_42 == <<"4", "2">>

\* the field names of an envelope
F_p == <<"p">>

F_protocol == <<"p", "r", "o", "t", "o", "c", "o", "l">>

F_type == <<"t", "y", "p", "e">>

F_query == <<"q", "u", "e", "r", "y">>

F_queryType == <<"q", "u", "e", "r", "y", "T", "y", "p", "e">>

F_op == <<"o", "p">>

F_operation == <<"o", "p", "e", "r", "a", "t", "i", "o", "n">>

F_data == <<"d", "a", "t", "a">>

F_m == <<"m">>

\* words of the envelopes the router is given
S_bogus == <<"b", "o", "g", "u", "s">>

S_close_connection == <<"c", "l", "o", "s", "e", "_", "c", "o", "n", "n", "e", "c", "t", "i", "o", "n">>

S_connection_request == <<"c", "o", "n", "n", "e", "c", "t", "i", "o", "n", "_", "r", "e", "q", "u", "e", "s", "t">>

S_X == <<"X">>

S_self == <<"s", "e", "l", "f">>

S_header == <<"{", "}">>

F_operator_id == <<"o", "p", "e", "r", "a", "t", "o", "r", "_", "i", "d">>

F__chunk == <<"_", "c", "h", "u", "n", "k">>

\* String.prototype.toLowerCase, one character
LowerChar(c) ==
    CASE c = "A" -> "a"
      [] c = "B" -> "b"
      [] c = "C" -> "c"
      [] c = "D" -> "d"
      [] c = "E" -> "e"
      [] c = "F" -> "f"
      [] c = "G" -> "g"
      [] c = "H" -> "h"
      [] c = "I" -> "i"
      [] c = "J" -> "j"
      [] c = "K" -> "k"
      [] c = "L" -> "l"
      [] c = "M" -> "m"
      [] c = "N" -> "n"
      [] c = "O" -> "o"
      [] c = "P" -> "p"
      [] c = "Q" -> "q"
      [] c = "R" -> "r"
      [] c = "S" -> "s"
      [] c = "T" -> "t"
      [] c = "U" -> "u"
      [] c = "V" -> "v"
      [] c = "W" -> "w"
      [] c = "X" -> "x"
      [] c = "Y" -> "y"
      [] c = "Z" -> "z"
      [] OTHER -> c

\* String.prototype.toLowerCase
ToLowerCase(s) == [i \in 1..Len(s) |-> LowerChar(s[i])]

\* String.prototype.includes
Includes(s, k) == \E i \in 0..(Len(s) - Len(k)) : SubSeq(s, i + 1, i + Len(k)) = k

\* Array.prototype.includes
ArrayIncludes(a, x) == \E i \in 1..Len(a) : a[i] = x

\* the value undefined, and the value null, among strings and arrays
Undefined == <<"undefined">>

Null == <<"null">>

\* the truthiness of a string or undefined: "" and undefined are falsy
TruthyString(v) == v # Undefined /\ v # << >>

\* a || b on strings
OrString(a, b) == IF TruthyString(a) THEN a ELSE b

\* the truthiness of an array or null: every array is truthy, the empty one too
TruthyArray(v) == v # Null

\* a || b on arrays
OrArray(a, b) == IF TruthyArray(a) THEN a ELSE b

(***************************************************************************)
(* Raw message contents and JSON.parse.                                    *)
(***************************************************************************)
\* the value JSON.parse gives, or the SyntaxError it throws; members are the
\* name/value pairs of an object, in the order of the text
JsonValue(kind, members) == [kind |-> kind, members |-> members]

Member(name, value) == [name |-> name, value |-> value]

\* the members of an object given its fields, an undefined field being absent
Members(fields) == SelectSeq(fields, LAMBDA f : f.value # Undefined)

RECURSIVE StringifyMembers(_)
StringifyMembers(ms) ==
    IF Len(ms) = 0 THEN << >>
    ELSE <<"\"">> \o ms[1].name \o <<"\"", ":", "\"">> \o ms[1].value \o <<"\"">>
         \o (IF Len(ms) > 1 THEN <<",">> ELSE << >>)
         \o StringifyMembers(Tail(ms))

\* the JSON text of an object with string members
Stringify(ms) == <<"{">> \o StringifyMembers(ms) \o <<"}">>

\* a raw message content: its text and what JSON.parse makes of that text
Raw(text, json) == [text |-> text, json |-> json]

JSONParse(content) == content.json

\* msg.name: the value of the member, undefined when there is none or msg is no object
Field(msg, name) ==
    IF \E i \in 1..Len(msg.members) : msg.members[i].name = name
    THEN msg.members[CHOOSE i \in 1..Len(msg.members) : msg.members[i].name = name].value
    ELSE Undefined

\* the words and phrases plain-text queries are made of
Vocabulary ==
    {S_price, S_Price, S_how_much, S_worth, S_narrative, S_trends, S_signal,
     S_hedera, S_HBAR, S_network, S_health, S_capabilities, S_what_can_you,
     S_help, S_who_are_you, S_bitcoin, S_BTC, S_ethereum, S_eth, S_whether,
     S_solana, S_avax, S_nearly, S_polkadot, S_report, S_market}

RECURSIVE Join(_)
Join(ws) ==
    IF Len(ws) = 1 THEN ws[1] ELSE ws[1] \o <<" ">> \o Join(Tail(ws))

\* texts of up to MaxWords words: no JSON, JSON.parse throws a SyntaxError
PlainTexts == {Join(ws) : ws \in UNION {[1..n -> Vocabulary] : n \in 1..MaxWords}}

PlainRaws == {Raw(t, JsonValue("SyntaxError", << >>)) : t \in PlainTexts}

\* the texts null, 42 and "price": JSON that is no object
ScalarRaws ==
    {Raw(S_null, JsonValue("null", << >>)),
     Raw(S_42, JsonValue("scalar", << >>)),
     Raw(<<"\"">> \o S_price \o <<"\"">>, JsonValue("scalar", << >>))}

\* JSON objects with any of the fields the handlers read
ObjectMembers ==
    {Members(<<Member(F_p, p), Member(F_protocol, pr), Member(F_type, ty),
               Member(F_queryType, qt), Member(F_query, q), Member(F_op, op),
               Member(F_data, d), Member(F_m, m)>>) :
        p \in {Undefined, S_hcs_10, S_other},
        pr \in {Undefined, S_hcs_10},
        ty \in {Undefined, S_query, S_other},
        qt \in {Undefined, S_price},
        q \in {Undefined, << >>, S_btc_price},
        op \in {Undefined, S_message},
        d \in {Undefined, S_trends},
        m \in {Undefined, S_help}}

ObjectRaws == {Raw(Stringify(ms), JsonValue("object", ms)) : ms \in ObjectMembers}

RawContents == PlainRaws \cup ScalarRaws \cup ObjectRaws

(***************************************************************************)
(* Classification, intent routing and asset extraction.                    *)
(***************************************************************************)
\* const PROTOCOL = "hcs-10"
PROTOCOL == S_hcs_10

\* the try block of _handleInboundMessage with the direct-query test first
ClassifyDirectFirst(content) ==
    LET msg == JSONParse(content) IN
    IF msg.kind \in {"SyntaxError", "null"} THEN "nl"
    ELSE IF Field(msg, F_type) = S_query \/ TruthyString(Field(msg, F_query)) THEN "direct"
    ELSE IF Field(msg, F_p) = PROTOCOL \/ Field(msg, F_protocol) = PROTOCOL THEN "protocol"
    ELSE "nl"

\* _handleInboundMessage: which handler the raw content is passed to.  JSON.parse
\* throws on text that is no JSON and msg.p throws on null: both end in the catch
Classify(content) ==
    LET msg == JSONParse(content) IN
    IF msg.kind = "SyntaxError" THEN "nl"
    ELSE IF msg.kind = "null" THEN "nl"
    ELSE IF Field(msg, F_p) = PROTOCOL \/ Field(msg, F_protocol) = PROTOCOL THEN "protocol"
    ELSE IF Field(msg, F_type) = S_query \/ TruthyString(Field(msg, F_query)) THEN "direct"
    ELSE "nl"

\* the handlers' arguments with the direct handler reading msg.query
QueryArgumentQueryField(handler, content) ==
    LET msg == JSONParse(content) IN
    CASE handler = "nl" -> content.text
      [] handler = "direct" -> OrString(Field(msg, F_query), Field(msg, F_type))
      [] handler = "protocol" -> OrString(Field(msg, F_data), Field(msg, F_m))

\* the first argument of _processQuery in the handler of the route; undefined is
\* also what a handler that does not call _processQuery is given here
QueryArgument(handler, content) ==
    LET msg == JSONParse(content) IN
    CASE handler = "nl" -> content.text
      [] handler = "direct" -> OrString(Field(msg, F_queryType), Field(msg, F_type))
      [] handler = "protocol" -> OrString(Field(msg, F_data), Field(msg, F_m))

\* whether the handler of the route calls _processQuery: the protocol handler
\* does for op "message" only
CallsProcessQuery(handler, content) ==
    handler = "protocol"
    => OrString(Field(JSONParse(content), F_op), Field(JSONParse(content), F_operation)) = S_message

\* const assetMap of _extractAssets, in the order Object.entries gives
AssetMap ==
    <<<<S_bitcoin, "BTC">>, <<S_btc, "BTC">>, <<S_ethereum, "ETH">>, <<S_eth, "ETH">>,
      <<S_solana, "SOL">>, <<S_sol, "SOL">>, <<S_hedera, "HBAR">>, <<S_hbar, "HBAR">>,
      <<S_avalanche, "AVAX">>, <<S_avax, "AVAX">>, <<S_near, "NEAR">>,
      <<S_polkadot, "DOT">>, <<S_dot, "DOT">>>>

\* the loop of _extractAssets without the test found.includes(symbol)
RECURSIVE FoundNoDedup(_, _, _)
FoundNoDedup(query, i, found) ==
    IF i > Len(AssetMap) THEN found
    ELSE FoundNoDedup(query, i + 1,
            IF Includes(query, AssetMap[i][1])
            THEN Append(found, AssetMap[i][2]) ELSE found)

\* the loop of _extractAssets over Object.entries(assetMap)
RECURSIVE Found(_, _, _)
Found(query, i, found) ==
    IF i > Len(AssetMap) THEN found
    ELSE Found(query, i + 1,
            IF Includes(query, AssetMap[i][1]) /\ ~ArrayIncludes(found, AssetMap[i][2])
            THEN Append(found, AssetMap[i][2]) ELSE found)

\* _extractAssets returning found whatever its length
ExtractAssetsNeverNull(query) == Found(query, 1, << >>)

\* _extractAssets
ExtractAssets(query) ==
    LET found == Found(query, 1, << >>) IN
    IF Len(found) > 0 THEN found ELSE Null

\* the default basket of _processQuery
DefaultAssets == <<"BTC", "ETH", "SOL", "HBAR">>

\* const query = typeof queryText === "string" ? queryText.toLowerCase() : ""
QueryOf(text) == IF text # Undefined THEN ToLowerCase(text) ELSE << >>

IsPriceQuery(query) ==
    Includes(query, S_price) \/ Includes(query, S_how_much) \/ Includes(query, S_worth)

IsNarrativeQuery(query) ==
    Includes(query, S_narrative) \/ Includes(query, S_trend) \/ Includes(query, S_signal)

IsHederaQuery(query) ==
    \/ Includes(query, S_hedera) \/ Includes(query, S_hbar)
    \/ Includes(query, S_network) \/ Includes(query, S_health)

IsCapabilitiesQuery(query) ==
    \/ Includes(query, S_capabilit) \/ Includes(query, S_what_can_you)
    \/ Includes(query, S_help) \/ Includes(query, S_who_are_you)

\* the routing of _processQuery with the narrative test before the price test
ResponseTypeNarrativeFirst(query) ==
    CASE IsNarrativeQuery(query) -> "narrative_detection"
      [] IsPriceQuery(query) -> "price_check"
      [] IsHederaQuery(query) -> "hedera_intelligence"
      [] IsCapabilitiesQuery(query) -> "capabilities"
      [] OTHER -> "market_report"

\* _processQuery: the type of the response, by the first if that matches
ResponseType(query) ==
    IF IsPriceQuery(query) THEN "price_check"
    ELSE IF IsNarrativeQuery(query) THEN "narrative_detection"
    ELSE IF IsHederaQuery(query) THEN "hedera_intelligence"
    ELSE IF IsCapabilitiesQuery(query) THEN "capabilities"
    ELSE "market_report"

\* a call of this.intel.generateReport or this.network.generateNetworkReport
GenerateReport(assets, focus) ==
    [generator |-> "generateReport", assets |-> assets, focus |-> focus]

GenerateNetworkReport ==
    [generator |-> "generateNetworkReport", assets |-> << >>, focus |-> "none"]

\* _processQuery: the generator calls it awaits, in order
GeneratorCalls(query) ==
    LET type == ResponseType(query) IN
    CASE type = "price_check" ->
            <<GenerateReport(OrArray(ExtractAssets(query), DefaultAssets), "prices")>>
      [] type = "narrative_detection" ->
            <<GenerateReport(DefaultAssets, "narratives")>>
      [] type = "hedera_intelligence" ->
            <<GenerateNetworkReport, GenerateReport(<<"HBAR">>, "hedera")>>
      [] type = "capabilities" -> << >>
      [] type = "market_report" ->
            <<GenerateReport(OrArray(ExtractAssets(query), DefaultAssets), "general")>>

InitQuery ==
    /\ raw \in RawContents
    /\ qpc = "received"
    /\ route = "none"
    /\ queryText = Undefined
    /\ responseType = "none"
    /\ generatorCalls = << >>
    /\ extracted = Undefined

\* no message is being handled
IdleQuery ==
    /\ raw = Raw(<< >>, JsonValue("SyntaxError", << >>))
    /\ qpc = "idle"
    /\ route = "none"
    /\ queryText = Undefined
    /\ responseType = "none"
    /\ generatorCalls = << >>
    /\ extracted = Undefined

\* _handleInboundMessage up to the _processQuery call of the handler it selects
HandleInboundMessage ==
    /\ qpc = "received"
    /\ route' = Classify(raw)
    /\ IF CallsProcessQuery(route', raw)
       THEN qpc' = "query" /\ queryText' = QueryArgument(route', raw)
       ELSE qpc' = "done" /\ queryText' = Undefined
    /\ UNCHANGED <<raw, responseType, generatorCalls, extracted>>

\* _processQuery, its generators succeeding
ProcessQuery ==
    /\ qpc = "query"
    /\ responseType' = ResponseType(QueryOf(queryText))
    /\ generatorCalls' = GeneratorCalls(QueryOf(queryText))
    /\ qpc' = "answered"
    /\ UNCHANGED <<raw, route, queryText, extracted>>

\* _extractAssets called on a text as it is
ExtractAssetsCall ==
    /\ qpc = "received"
    /\ extracted' = ExtractAssets(raw.text)
    /\ qpc' = "extracted"
    /\ UNCHANGED <<raw, route, queryText, responseType, generatorCalls>>

(***************************************************************************)
(* Chunked publishing (_publishOutbound, _publishChunked) and the          *)
(* reassembly of fragments by a reader of the topic.                       *)
(***************************************************************************)
\* the characters messages are made of: a letter and the double quote, which every
\* message JSON.stringify returns contains
Alphabet == {"a", "\""}

\* the serialized messages handed to the publisher
Messages == UNION {[1..n -> Alphabet] : n \in 0..MaxMessageLen}

\* the number of fragments rounded down
TotalChunksFloor(msg) == Len(msg) \div ChunkSize

\* Math.ceil(message.length / chunkSize)
TotalChunks(msg) == (Len(msg) + ChunkSize - 1) \div ChunkSize

\* message.slice(i * chunkSize, (i + 1) * chunkSize)
Slice(msg, from, to) ==
    SubSeq(msg, from + 1, IF to < Len(msg) THEN to ELSE Len(msg))

ChunkData(msg, i) == Slice(msg, i * ChunkSize, (i + 1) * ChunkSize)

\* `${Date.now()}`
DateNow == ToString(clock)

\* the chunk envelope { _chunk: { index, total, id }, data }; HederaService's has no id
ChunkMsg(i, total, id, data) ==
    [kind |-> "chunk", index |-> i, total |-> total, id |-> id, data |-> data]

\* the length of the fragment's data once JSON.stringify has escaped it: a double
\* quote or a backslash takes two characters
RECURSIVE EscapedLength(_)
EscapedLength(data) ==
    IF data = << >> THEN 0
    ELSE (IF Head(data) \in {"\"", "\\"} THEN 2 ELSE 1) + EscapedLength(Tail(data))

\* the size of the chunk envelope around its data ({"_chunk":{...},"data":""}),
\* scaled like the fragment size and the ceiling
FramingBytes == 1

\* the size of what is handed to setMessage: the message itself, or the serialized
\* chunk envelope
SubmittedBytes(entry) ==
    IF entry.kind = "whole" THEN Len(entry.data)
    ELSE FramingBytes + EscapedLength(entry.data)

\* a message submitted unfragmented
WholeMsg(msg) ==
    [kind |-> "whole", index |-> 0, total |-> 1, id |-> "undefined", data |-> msg]

\* the id field of the fragment submitted now: the agent evaluates Date.now() for
\* every fragment, HederaService writes no id
ChunkId == IF publisher = "agent" THEN DateNow ELSE "undefined"

InitChunk ==
    /\ publisher \in {"agent", "service"}
    /\ message \in Messages
    /\ clock = 1
    /\ cpc = "start"
    /\ chunkIndex = 0
    /\ topicLog = << >>
    /\ buffers = << >>
    /\ completed = {}
    /\ fed = {}
    /\ reassembled = << >>

\* nothing is being published
IdleChunk ==
    /\ publisher = "agent"
    /\ message = << >>
    /\ clock = 1
    /\ cpc = "idle"
    /\ chunkIndex = 0
    /\ topicLog = << >>
    /\ buffers = << >>
    /\ completed = {}
    /\ fed = {}
    /\ reassembled = << >>

\* time passes
Tick ==
    /\ clock < 1 + MaxTicks
    /\ clock' = clock + 1
    /\ UNCHANGED <<publisher, message, cpc, chunkIndex, topicLog, buffers, completed,
                   fed, reassembled>>

\* _publishOutbound / publishReport: a message above the ceiling is chunked, any
\* other is submitted as it is
PublishStart ==
    /\ cpc = "start"
    /\ IF Len(message) > ByteLimit
       THEN cpc' = "chunking" /\ topicLog' = topicLog
       ELSE cpc' = "done" /\ topicLog' = Append(topicLog, WholeMsg(message))
    /\ UNCHANGED <<publisher, message, clock, chunkIndex, buffers, completed, fed,
                   reassembled>>

\* one turn of the loop of _publishChunked: the fragment is built and its submit
\* awaited
PublishChunk ==
    /\ cpc = "chunking"
    /\ chunkIndex < TotalChunks(message)
    /\ topicLog' = Append(topicLog,
          ChunkMsg(chunkIndex, TotalChunks(message), ChunkId, ChunkData(message, chunkIndex)))
    /\ chunkIndex' = chunkIndex + 1
    /\ UNCHANGED <<publisher, message, clock, cpc, buffers, completed, fed, reassembled>>

\* the loop of _publishChunked ends
PublishEnd ==
    /\ cpc = "chunking"
    /\ chunkIndex >= TotalChunks(message)
    /\ cpc' = "done"
    /\ UNCHANGED <<publisher, message, clock, chunkIndex, topicLog, buffers, completed,
                   fed, reassembled>>

\* a second invocation of _publishOutbound (another handler's response) on the same
\* topic: its message, where it stands, its loop variable, and the positions of the
\* topic it has written
Publish(msg, pc, index, at) == [message |-> msg, pc |-> pc, index |-> index, at |-> at]

\* the messages of the second invocation: one of every length
OtherMessages == {[i \in 1..n |-> "a"] : n \in 0..MaxMessageLen}

InitOther == other \in {Publish(msg, "start", 0, {}) : msg \in OtherMessages}

IdleOther == other = Publish(<< >>, "idle", 0, {})

\* _publishOutbound / publishReport of the second invocation
OtherStart ==
    /\ other.pc = "start"
    /\ IF Len(other.message) > ByteLimit
       THEN /\ other' = [other EXCEPT !.pc = "chunking"]
            /\ topicLog' = topicLog
       ELSE /\ other' = [other EXCEPT !.pc = "done", !.at = @ \cup {Len(topicLog) + 1}]
            /\ topicLog' = Append(topicLog, WholeMsg(other.message))
    /\ UNCHANGED <<publisher, message, clock, cpc, chunkIndex, buffers, completed, fed,
                   reassembled>>

\* one turn of the loop of _publishChunked of the second invocation
OtherChunk ==
    /\ other.pc = "chunking"
    /\ other.index < TotalChunks(other.message)
    /\ topicLog' = Append(topicLog,
          ChunkMsg(other.index, TotalChunks(other.message), ChunkId,
                   ChunkData(other.message, other.index)))
    /\ other' = [other EXCEPT !.index = @ + 1, !.at = @ \cup {Len(topicLog) + 1}]
    /\ UNCHANGED <<publisher, message, clock, cpc, chunkIndex, buffers, completed, fed,
                   reassembled>>

\* the loop of the second invocation ends
OtherEnd ==
    /\ other.pc = "chunking"
    /\ other.index >= TotalChunks(other.message)
    /\ other' = [other EXCEPT !.pc = "done"]
    /\ UNCHANGED chunkVars

\* the reassembly buffer of a message id: the fragments received, by index
BufferOf(bufs, id) ==
    IF \E i \in 1..Len(bufs) : bufs[i].id = id
    THEN bufs[CHOOSE i \in 1..Len(bufs) : bufs[i].id = id].parts
    ELSE << >>

RECURSIVE Concat(_, _, _)
Concat(parts, i, total) ==
    IF i >= total THEN << >>
    ELSE (CHOOSE p \in {parts[k] : k \in 1..Len(parts)} : p.index = i).data
         \o Concat(parts, i + 1, total)

\* the fragments of the buffer together with the new one, one per index
WithPart(parts, chunk) ==
    IF \E k \in 1..Len(parts) : parts[k].index = chunk.index
    THEN parts
    ELSE Append(parts, [index |-> chunk.index, data |-> chunk.data])

\* whether the fragments 0..total-1 are all there
Complete(parts, total) ==
    \A i \in 0..(total - 1) : \E k \in 1..Len(parts) : parts[k].index = i

\* ingest: a fragment of a completed message is ignored; any other is buffered by
\* index, and the payload is returned and the buffer cleared once all are there
Ingest(chunk) ==
    IF chunk.id \in completed
    THEN /\ UNCHANGED <<buffers, completed, reassembled>>
    ELSE LET parts == WithPart(BufferOf(buffers, chunk.id), chunk)
             others == SelectSeq(buffers, LAMBDA b : b.id # chunk.id)
         IN IF Complete(parts, chunk.total)
            THEN /\ reassembled' = Append(reassembled, Concat(parts, 0, chunk.total))
                 /\ completed' = completed \cup {chunk.id}
                 /\ buffers' = others
            ELSE /\ buffers' = Append(others, [id |-> chunk.id, parts |-> parts])
                 /\ UNCHANGED <<completed, reassembled>>

\* a reader of the topic hands a fragment to ingest: in any order, again and again
IngestFragment ==
    /\ \E k \in 1..Len(topicLog) :
          /\ topicLog[k].kind = "chunk"
          /\ Ingest(topicLog[k])
          /\ fed' = fed \cup {k}
    /\ UNCHANGED <<publisher, message, clock, cpc, chunkIndex, topicLog>>

(***************************************************************************)
(* The router: one message after the other, on the inbound topic or on a   *)
(* connection topic, with generators and transport that may fail.          *)
(***************************************************************************)
\* the query types of the handler table
S_market_report == <<"m", "a", "r", "k", "e", "t", "_", "r", "e", "p", "o", "r", "t">>

S_price_check == <<"p", "r", "i", "c", "e", "_", "c", "h", "e", "c", "k">>

S_narrative_detection == <<"n", "a", "r", "r", "a", "t", "i", "v", "e", "_", "d", "e", "t", "e", "c", "t", "i", "o", "n">>

S_hedera_network_stats == <<"h", "e", "d", "e", "r", "a", "_", "n", "e", "t", "w", "o", "r", "k", "_", "s", "t", "a", "t", "s">>

KnownQueryTypes ==
    {S_market_report, S_price_check, S_narrative_detection, S_capabilities,
     S_hedera_network_stats}

\* the words of the legacy protocol and of the envelope publishReport writes
S_hedera_intel == <<"h", "e", "d", "e", "r", "a", "-", "i", "n", "t", "e", "l">>

S_response == <<"r", "e", "s", "p", "o", "n", "s", "e">>

S_heartbeat == <<"h", "e", "a", "r", "t", "b", "e", "a", "t">>

S_market_intelligence == <<"m", "a", "r", "k", "e", "t", "_", "i", "n", "t", "e", "l", "l", "i", "g", "e", "n", "c", "e">>

S_ok == <<"o", "k">>

S_error == <<"e", "r", "r", "o", "r">>

S_custom == <<"c", "u", "s", "t", "o", "m">>

F_query_type == <<"q", "u", "e", "r", "y", "_", "t", "y", "p", "e">>

F_status == <<"s", "t", "a", "t", "u", "s">>

F_report == <<"r", "e", "p", "o", "r", "t">>

F_prices == <<"p", "r", "i", "c", "e", "s">>

F_capabilities == <<"c", "a", "p", "a", "b", "i", "l", "i", "t", "i", "e", "s">>

F_narratives == <<"n", "a", "r", "r", "a", "t", "i", "v", "e", "s">>

S_topic == <<"0", ".", "0", ".", "1">>

S_connection_created == <<"c", "o", "n", "n", "e", "c", "t", "i", "o", "n", "_", "c", "r", "e", "a", "t", "e", "d">>

\* the topics a handled message can arrive on
Channels == {"inbound", "connection"}

\* a structured envelope of peer X
Env(op, data) ==
    Members(<<Member(F_p, S_hcs_10), Member(F_op, op), Member(F_operator_id, S_X),
              Member(F_data, data)>>)

\* the contents the callbacks are invoked with: envelopes with the operations of the
\* switch, with another and with none, an envelope of the agent itself, direct
\* queries of an unknown and of the known query types, a chunk envelope with and
\* without data (the header object is kept as its
\* text), plain text and the JSON null
RouterObjects ==
    {Env(S_message, S_trends), Env(S_message, S_help), Env(S_bogus, S_trends),
     Env(Undefined, S_trends), Env(S_close_connection, Undefined),
     Env(S_connection_request, Undefined),
     Members(<<Member(F_p, S_hcs_10), Member(F_op, S_message),
               Member(F_operator_id, S_self), Member(F_data, S_trends)>>),
     Members(<<Member(F_type, S_query), Member(F_queryType, S_other)>>),
     Members(<<Member(F_type, S_query), Member(F_queryType, S_market_report)>>),
     Members(<<Member(F_type, S_query), Member(F_queryType, S_price_check)>>),
     Members(<<Member(F_type, S_query), Member(F_queryType, S_narrative_detection)>>),
     Members(<<Member(F_type, S_query), Member(F_queryType, S_hedera_network_stats)>>),
     Members(<<Member(F_type, S_query), Member(F_queryType, S_capabilities)>>),
     Members(<<Member(F__chunk, S_header), Member(F_data, S_trends)>>),
     Members(<<Member(F__chunk, S_header)>>)}

RouterContents ==
    {Raw(Stringify(ms), JsonValue("object", ms)) : ms \in RouterObjects}
    \cup {Raw(S_btc_price, JsonValue("SyntaxError", << >>)),
          Raw(S_null, JsonValue("null", << >>))}

\* the case of the switch of _handleProtocolMessage with default handled as "message"
ProtocolCaseFallThrough(op) ==
    CASE op = S_connection_request -> "connection_request"
      [] op = S_close_connection -> "close_connection"
      [] OTHER -> "message"

\* the case of the switch of _handleProtocolMessage
ProtocolCase(op) ==
    CASE op = S_connection_request -> "connection_request"
      [] op = S_message -> "message"
      [] op = S_close_connection -> "close_connection"
      [] OTHER -> "default"

\* const op = msg.op || msg.operation
OpOf(msg) == OrString(Field(msg, F_op), Field(msg, F_operation))

\* every response on the outbound topic
PublishTopicAlwaysOutbound(ch) == "outbound"

\* the topic the response is submitted to: _publishOutbound writes the outbound
\* topic, _handleConnectionMessage the connection topic
PublishTopic(ch) == IF ch = "connection" THEN "connection" ELSE "outbound"

\* const queryText = msg.data || msg.m || JSON.stringify(msg)
ConnectionQueryText(c) ==
    LET msg == JSONParse(c) IN
    OrString(OrString(Field(msg, F_data), Field(msg, F_m)),
             IF msg.kind = "object" THEN Stringify(msg.members) ELSE c.text)

\* a submitted message: the arrival it answers, its topic, its op and the type of
\* the response in its data field
Submitted(n, topic, op, type) == [msg |-> n, topic |-> topic, op |-> op, type |-> type]

\* the op of the envelope around a response: _sendResponse and
\* _handleConnectionMessage write "message", the other handlers "response"
ResponseOp ==
    IF channel = "connection" THEN "message"
    ELSE IF ~inCatch /\ Classify(rawContent) = "protocol" THEN "message"
    ELSE "response"

\* no message is being handled
IdleRouter ==
    /\ channel = "inbound"
    /\ rawContent = Raw(<< >>, JsonValue("SyntaxError", << >>))
    /\ rpc = "idle"
    /\ rtext = Undefined
    /\ inCatch = FALSE
    /\ failed = FALSE
    /\ answer = "none"
    /\ published = << >>
    /\ listening = TRUE
    /\ arrivals = 0

\* the agent listening, a connection with peer X established on topic 1
InitEstablished ==
    /\ inbound = << >>
    /\ delivered = 0
    /\ handlers = << >>
    /\ connections = StoreConnection(<< >>, S_X, 1)
    /\ subscriptions = {1}
    /\ outbound = << >>
    /\ nextTopic = 2
    /\ sent = 0

\* a subscription callback is invoked with the next message of its topic
Arrive ==
    /\ listening
    /\ rpc \in {"idle", "ended", "threw"}
    /\ arrivals < MaxRouterMsgs
    /\ channel' \in Channels
    /\ rawContent' \in RouterContents
    /\ rpc' = "received"
    /\ rtext' = Undefined
    /\ inCatch' = FALSE
    /\ failed' = FALSE
    /\ answer' = "none"
    /\ arrivals' = arrivals + 1
    /\ UNCHANGED <<published, listening, connVars>>

\* _handleInboundMessage and the handler it selects, up to the first await
DispatchInbound ==
    /\ rpc = "received"
    /\ channel = "inbound"
    /\ LET msg == JSONParse(rawContent)
           handler == Classify(rawContent)
           case == ProtocolCase(OpOf(msg))
       IN /\ rpc' = CASE handler = "protocol" /\ case = "connection_request" -> "connect"
                      [] handler = "protocol" /\ case \in {"close_connection", "default"}
                           -> "ended"
                      [] OTHER -> "query"
          /\ rtext' = IF handler = "protocol" /\ case # "message"
                      THEN Undefined ELSE QueryArgument(handler, rawContent)
          /\ inCatch' = (msg.kind \in {"SyntaxError", "null"})
          /\ connections' = IF handler = "protocol" /\ case = "close_connection"
                            THEN MapDelete(connections, Field(msg, F_operator_id))
                            ELSE connections
    /\ UNCHANGED <<channel, rawContent, failed, answer, published, listening, arrivals,
                   inbound, delivered, handlers, subscriptions, outbound, nextTopic,
                   sent>>

\* _handleConnectionMessage without the test of operator_id
DispatchConnectionNoSkip ==
    /\ rpc = "received"
    /\ channel = "connection"
    /\ LET msg == JSONParse(rawContent) IN
          IF msg.kind \in {"SyntaxError", "null"}
          THEN rpc' = "ended" /\ rtext' = Undefined
          ELSE rpc' = "query" /\ rtext' = ConnectionQueryText(rawContent)
    /\ UNCHANGED <<channel, rawContent, inCatch, failed, answer, published, listening,
                   arrivals, connVars>>

\* _handleConnectionMessage up to the first await: what JSON.parse rejects, the JSON
\* null and the agent's own messages end it, anything else is a query
DispatchConnection ==
    /\ rpc = "received"
    /\ channel = "connection"
    /\ LET msg == JSONParse(rawContent) IN
          IF \/ msg.kind \in {"SyntaxError", "null"}
             \/ Field(msg, F_operator_id) = S_self
          THEN rpc' = "ended" /\ rtext' = Undefined
          ELSE rpc' = "query" /\ rtext' = ConnectionQueryText(rawContent)
    /\ UNCHANGED <<channel, rawContent, inCatch, failed, answer, published, listening,
                   arrivals, connVars>>

\* _handleConnectionRequest, its transport calls succeeding
ConnectResolved ==
    /\ rpc = "connect"
    /\ connections' = StoreConnection(connections,
                         Field(JSONParse(rawContent), F_operator_id), nextTopic)
    /\ published' = Append(published,
                       Submitted(arrivals, "inbound", "connection_created", "none"))
    /\ subscriptions' = subscriptions \cup {nextTopic}
    /\ nextTopic' = nextTopic + 1
    /\ rpc' = "ended"
    /\ UNCHANGED <<channel, rawContent, rtext, inCatch, failed, answer, listening,
                   arrivals, inbound, delivered, handlers, outbound, sent>>

\* the topic creation of _handleConnectionRequest is rejected: the catch block of
\* _handleInboundMessage passes the raw content to _handleNaturalLanguage
ConnectRejected ==
    /\ rpc = "connect"
    /\ rpc' = "query"
    /\ rtext' = rawContent.text
    /\ inCatch' = TRUE
    /\ UNCHANGED <<channel, rawContent, failed, answer, published, listening, arrivals,
                   connVars>>

\* _processQuery returns, its generator calls having succeeded
GeneratorsSucceed ==
    /\ rpc = "query"
    /\ answer' = ResponseType(QueryOf(rtext))
    /\ rpc' = "publish"
    /\ UNCHANGED <<channel, rawContent, rtext, inCatch, failed, published, listening,
                   arrivals, connVars>>

\* a generator call of _processQuery throws.  _handleConnectionMessage catches and
\* logs; the try block of _handleInboundMessage passes the raw content to
\* _handleNaturalLanguage; out of the catch block the rejection leaves the async
\* callback unhandled, which ends the process or not, as the runtime is set
GeneratorFails ==
    /\ rpc = "query"
    /\ GeneratorCalls(QueryOf(rtext)) # << >>
    /\ failed' = TRUE
    /\ IF channel = "connection"
       THEN rpc' = "ended" /\ UNCHANGED <<rtext, inCatch, listening>>
       ELSE IF ~inCatch
       THEN rpc' = "query" /\ rtext' = rawContent.text /\ inCatch' = TRUE
            /\ UNCHANGED listening
       ELSE rpc' = "threw" /\ listening' \in BOOLEAN /\ UNCHANGED <<rtext, inCatch>>
    /\ UNCHANGED <<channel, rawContent, answer, published, arrivals, connVars>>

\* the response is submitted
PublishResolved ==
    /\ rpc = "publish"
    /\ published' = Append(published,
                       Submitted(arrivals, PublishTopic(channel), ResponseOp, answer))
    /\ rpc' = "ended"
    /\ UNCHANGED <<channel, rawContent, rtext, inCatch, failed, answer, listening,
                   arrivals, connVars>>

\* the submit is rejected: _publishOutbound and _handleConnectionMessage catch and log
PublishRejected ==
    /\ rpc = "publish"
    /\ rpc' = "ended"
    /\ UNCHANGED <<channel, rawContent, rtext, inCatch, failed, answer, published,
                   listening, arrivals, connVars>>

\* the heartbeat as _publishOutbound submits it: it answers no message
Heartbeat == Submitted(0, "outbound", "heartbeat", "none")

\* what the steps of startListening leave alone, the router's variables aside
notStart == <<connVars, queryVars, chunkVars, concVars, taskVars, engineVars, legacyVars,
              serviceVars, echoVars>>

\* startListening up to the await of _sendHeartbeat: _publishOutbound has built the
\* heartbeat and awaits its submit
StartListening ==
    /\ spc = "idle"
    /\ spc' = "heartbeat"
    /\ UNCHANGED <<routerVars, notStart>>

\* the submit of the heartbeat resolves: _sendHeartbeat returns and startListening
\* subscribes to the inbound topic
HeartbeatResolved ==
    /\ spc = "heartbeat"
    /\ published' = Append(published, Heartbeat)
    /\ spc' = "subscribed"
    /\ UNCHANGED <<channel, rawContent, rpc, rtext, inCatch, failed, answer, listening,
                   arrivals, notStart>>

\* the submit of the heartbeat is rejected: the catch of _publishOutbound logs the
\* error, _sendHeartbeat returns and startListening subscribes to the inbound topic
HeartbeatRejected ==
    /\ spc = "heartbeat"
    /\ spc' = "subscribed"
    /\ UNCHANGED <<routerVars, notStart>>

\* the callback of a subscription is invoked: the inbound topic's once startListening
\* has subscribed, a connection topic's once a connection request was accepted
ArriveSubscribed ==
    /\ spc = "subscribed"
    /\ Arrive
    /\ channel' = "connection" => subscriptions # {}

(***************************************************************************)
(* The legacy protocol: AgentProtocol over the topic of HederaService.     *)
(***************************************************************************)
\* const PROTOCOL_NAME = "hedera-intel"
PROTOCOL_NAME == S_hedera_intel

\* { ...base, ...data }: a member of data replaces the value of the member of base
\* with its name, where that one stands, and is appended when there is none
RECURSIVE Spread(_, _)
Spread(base, data) ==
    IF Len(data) = 0 THEN base
    ELSE LET d == data[1]
             at == {i \in 1..Len(base) : base[i].name = d.name}
         IN Spread(IF at = {} THEN Append(base, d)
                   ELSE [base EXCEPT ![CHOOSE i \in at : TRUE] = d],
                   Tail(data))

\* createMessage(type, data): version, timestamp and agent are left out
CreateMessage(type, data) ==
    JsonValue("object",
        Spread(<<Member(F_protocol, PROTOCOL_NAME), Member(F_type, type)>>, data))

\* processMessage returned null
NoResponse == JsonValue("null", << >>)

\* the response of the catch block and the response to an unknown query type: the
\* error text and availableTypes are left out
ErrorResponse == CreateMessage(S_response, <<Member(F_status, S_error)>>)

\* the message sendQuery builds
QueryMessage(queryType) == CreateMessage(S_query, <<Member(F_queryType, queryType)>>)

\* what publishReport submits for a report {title, summary}: the report object is
\* kept as the text of its summary
ReportEnvelope(summary) ==
    LET ms == <<Member(F_type, S_market_intelligence), Member(F_report, summary)>>
    IN Raw(Stringify(ms), JsonValue("object", ms))

\* a handler, as the members of the result it returns; the default handlers of
\* _registerDefaults return status ok and their report, prices, capabilities or
\* narratives
DefaultHandler(queryType) ==
    <<Member(F_status, S_ok),
      Member(CASE queryType = S_market_report -> F_report
               [] queryType = S_price_check -> F_prices
               [] queryType = S_capabilities -> F_capabilities
               [] queryType = S_narrative_detection -> F_narratives,
             S_header)>>

\* no handler is being awaited
NoHandler == << >>

\* the capabilities the default capabilities handler lists in its result
AdvertisedCapabilities ==
    <<S_market_report, S_price_check, S_narrative_detection, S_hedera_network_stats>>

\* Array.from(this.handlers.keys()): the capabilities of the heartbeat and the
\* availableTypes of the response to an unknown query type
HandlerKeys(m) == [i \in 1..Len(m) |-> m[i].key]

\* handlers registered by the user of the class
CustomHandlers ==
    {<<Member(F_status, S_custom)>>, <<Member(F_status, S_ok), Member(F_data, S_trends)>>}

\* a registerHandler that keeps the handler a query type already has
HandlersAfterRegisterKeepFirst(m, queryType, handler) ==
    IF MapHas(m, queryType) THEN m ELSE MapSet(m, queryType, handler)

\* registerHandler: this.handlers.set(queryType, handler)
HandlersAfterRegister(m, queryType, handler) == MapSet(m, queryType, handler)

\* a call of registerHandler, as the log of the calls keeps it
Registration(queryType, handler) == [queryType |-> queryType, handler |-> handler]

\* the calls _registerDefaults makes, in order
DefaultRegistrations ==
    <<Registration(S_market_report, DefaultHandler(S_market_report)),
      Registration(S_price_check, DefaultHandler(S_price_check)),
      Registration(S_capabilities, DefaultHandler(S_capabilities)),
      Registration(S_narrative_detection, DefaultHandler(S_narrative_detection))>>

\* this.handlers after the calls of a log
RECURSIVE HandlersAfter(_)
HandlersAfter(log) ==
    IF Len(log) = 0 THEN << >>
    ELSE LET last == log[Len(log)] IN
         HandlersAfterRegister(HandlersAfter(SubSeq(log, 1, Len(log) - 1)),
                               last.queryType, last.handler)

\* the contents peers submit to the topic: objects with the fields processMessage
\* reads, a query for hedera_network_stats, a heartbeat, plain text, and the JSON
\* null, 42 and "price"
LegacyObjects ==
    {Members(<<Member(F_protocol, pr), Member(F_type, ty), Member(F_queryType, qt)>>) :
        pr \in {Undefined, S_hedera_intel, S_hcs_10},
        ty \in {Undefined, S_query, S_response},
        qt \in {Undefined, S_capabilities, S_bogus}}
    \cup {Members(<<Member(F_protocol, S_hedera_intel), Member(F_type, S_query),
                    Member(F_query_type, S_capabilities)>>),
          Members(<<Member(F_protocol, S_hedera_intel), Member(F_type, S_query),
                    Member(F_queryType, S_hedera_network_stats)>>),
          Members(<<Member(F_protocol, S_hedera_intel), Member(F_type, S_heartbeat)>>)}

LegacyContents ==
    {Raw(Stringify(ms), JsonValue("object", ms)) : ms \in LegacyObjects}
    \cup {Raw(S_btc_price, JsonValue("SyntaxError", << >>)),
          Raw(S_null, JsonValue("null", << >>)),
          Raw(S_42, JsonValue("number", << >>)),
          Raw(<<"\"">> \o S_price \o <<"\"">>, JsonValue("string", << >>))}

\* a message of the topic and who submitted it: a peer directly, a peer through
\* sendQuery, or the listener
Posted(content, by) == [content |-> content, by |-> by]

\* const queryType = msg.queryType || msg.query_type
QueryTypeOf(msg) == OrString(Field(msg, F_queryType), Field(msg, F_query_type))

\* processMessage up to the call of the handler, on message.content as subscribe
\* passes it (the parsed value, or the text when JSON.parse rejected it): "null"
\* when it returns null, "error" when it returns an error response (from the catch
\* block: JSON.parse of a string throws, msg.protocol of null throws; or for a query
\* type without handler), "handler" when it calls the handler
ProcessMessageStart(content, m) ==
    LET msg == JSONParse(content) IN
    IF msg.kind \in {"SyntaxError", "string", "null"} THEN "error"
    ELSE IF Field(msg, F_protocol) # PROTOCOL_NAME THEN "null"
    ELSE IF Field(msg, F_type) # S_query THEN "null"
    ELSE IF ~MapHas(m, QueryTypeOf(msg)) THEN "error"
    ELSE "handler"

legacyRest == <<connVars, queryVars, chunkVars, concVars, routerVars, startVars,
                taskVars, engineVars,
    serviceVars, echoVars>>

\* new AgentProtocol(hederaService, intelEngine), no message on the topic
InitLegacy ==
    /\ serviceTopic = << >>
    /\ serviceDelivered = 0
    /\ registrations = DefaultRegistrations
    /\ protocolHandlers = HandlersAfter(DefaultRegistrations)
    /\ lpc = "idle"
    /\ lmsg = Raw(<< >>, JsonValue("SyntaxError", << >>))
    /\ invoked = NoHandler
    /\ lresponse = NoResponse

\* registerHandler(queryType, handler)
RegisterHandler ==
    /\ Len(registrations) < Len(DefaultRegistrations) + MaxRegistrations
    /\ \E queryType \in {S_capabilities, S_bogus}, handler \in CustomHandlers :
          /\ protocolHandlers' = HandlersAfterRegister(protocolHandlers, queryType, handler)
          /\ registrations' = Append(registrations, Registration(queryType, handler))
    /\ UNCHANGED <<serviceTopic, serviceDelivered, lpc, lmsg, invoked, lresponse,
                   legacyRest>>

\* the messages of the topic the listener did not submit
FromPeers == {k \in 1..Len(serviceTopic) : serviceTopic[k].by # "listener"}

\* a peer submits a content to the topic
PeerSubmitsRaw ==
    /\ Cardinality(FromPeers) < MaxServiceMsgs
    /\ \E c \in LegacyContents : serviceTopic' = Append(serviceTopic, Posted(c, "peer"))
    /\ UNCHANGED <<serviceDelivered, registrations, protocolHandlers, lpc, lmsg, invoked,
                   lresponse, legacyRest>>

\* a peer calls sendQuery(queryType): publishReport submits the query message as
\* the summary of a report
SendQuery ==
    /\ Cardinality(FromPeers) < MaxServiceMsgs
    /\ \E queryType \in {S_capabilities, S_bogus} :
          serviceTopic' = Append(serviceTopic,
              Posted(ReportEnvelope(Stringify(QueryMessage(queryType).members)), "sendQuery"))
    /\ UNCHANGED <<serviceDelivered, registrations, protocolHandlers, lpc, lmsg, invoked,
                   lresponse, legacyRest>>

\* the subscription delivers the next message of the topic: subscribe parses it and
\* the callback of startListening calls processMessage, which returns or awaits
\* the handler; one message is followed at a time, the next after the callback of
\* the one before has ended
LegacyDeliver ==
    /\ lpc \in {"idle", "ended", "threw"}
    /\ serviceDelivered < Len(serviceTopic)
    /\ serviceDelivered' = serviceDelivered + 1
    /\ lmsg' = serviceTopic[serviceDelivered'].content
    /\ LET outcome == ProcessMessageStart(lmsg', protocolHandlers) IN
          /\ lpc' = CASE outcome = "null" -> "ended"
                      [] outcome = "error" -> "publish"
                      [] outcome = "handler" -> "handler"
          /\ lresponse' = IF outcome = "error" THEN ErrorResponse ELSE NoResponse
          /\ invoked' = IF outcome = "handler"
                        THEN MapGet(protocolHandlers, QueryTypeOf(JSONParse(lmsg')))
                        ELSE NoHandler
    /\ UNCHANGED <<serviceTopic, registrations, protocolHandlers, legacyRest>>

\* the handler returns its result: processMessage returns the response
HandlerReturns ==
    /\ lpc = "handler"
    /\ lresponse' = CreateMessage(S_response,
                        <<Member(F_queryType, QueryTypeOf(JSONParse(lmsg)))>> \o invoked)
    /\ lpc' = "publish"
    /\ UNCHANGED <<serviceTopic, serviceDelivered, registrations, protocolHandlers, lmsg,
                   invoked, legacyRest>>

\* the handler throws: the catch block of processMessage returns an error response
HandlerThrows ==
    /\ lpc = "handler"
    /\ lresponse' = ErrorResponse
    /\ lpc' = "publish"
    /\ UNCHANGED <<serviceTopic, serviceDelivered, registrations, protocolHandlers, lmsg,
                   invoked, legacyRest>>

\* the callback publishes the response: publishReport submits it as the summary of
\* a report
LegacyPublishResolved ==
    /\ lpc = "publish"
    /\ serviceTopic' = Append(serviceTopic,
          Posted(ReportEnvelope(Stringify(lresponse.members)), "listener"))
    /\ lpc' = "ended"
    /\ UNCHANGED <<serviceDelivered, registrations, protocolHandlers, lmsg, invoked,
                   lresponse, legacyRest>>

\* publishReport rejects: the rejection leaves the callback
LegacyPublishRejected ==
    /\ lpc = "publish"
    /\ lpc' = "threw"
    /\ UNCHANGED <<serviceTopic, serviceDelivered, registrations, protocolHandlers, lmsg,
                   invoked, lresponse, legacyRest>>

(***************************************************************************)
(* The operations that need a topic: HederaService, the startListening of  *)
(* AgentProtocol, register and startListening of OpenConvAIAgent.          *)
(***************************************************************************)
\* the values a topic id is set to: null, the empty string, the id of a topic
TopicIdValues == {Null, << >>, S_topic}

\* a guard that lets every topic id pass
MissingNever(id) == FALSE

\* !this.topicId, !this.inboundTopicId: null and the empty string are falsy
Missing(id) == id = Null \/ id = << >>

\* an operation called and how its promise settled: "resolved", "threw", or
\* "pending" while the operation awaits
Call(op, outcome) == [op |-> op, outcome |-> outcome]

\* inboundTopicId and outboundTopicId of the agent
AgentTopics(in, out) == [inbound |-> in, outbound |-> out]

\* new HederaService(), new AgentProtocol(...), new OpenConvAIAgent(...)
InitService ==
    /\ topicId = Null
    /\ client = Null
    /\ opened = 0
    /\ isListening = FALSE
    /\ starts = << >>
    /\ agentTopics = AgentTopics(Null, Null)
    /\ lastCall = Call("none", "none")
    /\ ncalls = 0

\* the process runs the HCS-10 agent and none of its messages has come back
IdleEcho == command = "hcs10" /\ echoed = {}

serviceRest == <<connVars, queryVars, chunkVars, concVars, taskVars, engineVars, echoVars,
                 channel, rawContent, rpc, rtext, inCatch, failed, answer, listening,
                 arrivals, serviceDelivered, registrations, protocolHandlers, lpc, lmsg,
                 invoked, lresponse>>

\* HederaService.initialize: the client is built and its operator set
Initialize ==
    /\ client' = <<"client">>
    /\ UNCHANGED <<topicId, opened, isListening, starts, agentTopics, lastCall, ncalls,
                   serviceTopic, published, spc, serviceRest>>

\* HederaService.setTopicId(topicId)
SetTopicId ==
    /\ topicId' \in TopicIdValues
    /\ UNCHANGED <<client, opened, isListening, starts, agentTopics, lastCall, ncalls,
                   serviceTopic, published, spc, serviceRest>>

\* OpenConvAIAgent.setTopics(inboundTopicId, outboundTopicId)
SetTopics ==
    /\ \E in \in {Null, S_topic}, out \in {Null, S_topic} :
          agentTopics' = AgentTopics(in, out)
    /\ UNCHANGED <<topicId, client, opened, isListening, starts, lastCall, ncalls,
                   serviceTopic, published, spc, serviceRest>>

\* HederaService.publishReport(report): throws without a topic id; the submit
\* throws without a client; otherwise the report is on the topic
PublishReport ==
    /\ ncalls < MaxCalls
    /\ ncalls' = ncalls + 1
    /\ IF Missing(topicId) \/ client = Null
       THEN /\ lastCall' = Call("publishReport", "threw")
            /\ UNCHANGED serviceTopic
       ELSE /\ lastCall' = Call("publishReport", "resolved")
            /\ serviceTopic' = Append(serviceTopic, Posted(ReportEnvelope(S_trends), "peer"))
    /\ UNCHANGED <<topicId, client, opened, isListening, starts, agentTopics, published,
                   spc, serviceRest>>

\* HederaService.subscribe(callback): throws without a topic id, otherwise opens
\* a subscription to the topic
Subscribe ==
    /\ ncalls < MaxCalls
    /\ ncalls' = ncalls + 1
    /\ IF Missing(topicId) \/ client = Null
       THEN /\ lastCall' = Call("subscribe", "threw")
            /\ UNCHANGED opened
       ELSE /\ lastCall' = Call("subscribe", "resolved")
            /\ opened' = opened + 1
    /\ UNCHANGED <<topicId, client, isListening, starts, agentTopics, serviceTopic,
                   published, spc, serviceRest>>

\* HederaService.getTopicInfo(): throws without a topic id, otherwise queries the
\* network and changes nothing
GetTopicInfo ==
    /\ ncalls < MaxCalls
    /\ ncalls' = ncalls + 1
    /\ lastCall' = Call("getTopicInfo",
                        IF Missing(topicId) \/ client = Null THEN "threw" ELSE "resolved")
    /\ UNCHANGED <<topicId, client, opened, isListening, starts, agentTopics,
                   serviceTopic, published, spc, serviceRest>>

\* the heartbeat of AgentProtocol.sendHeartbeat as publishReport submits it
LegacyHeartbeat == Posted(ReportEnvelope(Stringify(
    CreateMessage(S_heartbeat, << >>).members)), "listener")

\* AgentProtocol.startListening up to its first await: it returns when isListening
\* is set; otherwise it sets isListening and calls sendHeartbeat, whose
\* publishReport throws at once without a topic id or a client
LegacyStartListening ==
    /\ ncalls < MaxCalls
    /\ ncalls' = ncalls + 1
    /\ IF isListening
       THEN starts' = Append(starts, "returned") /\ UNCHANGED isListening
       ELSE /\ isListening' = TRUE
            /\ starts' = Append(starts, IF Missing(topicId) \/ client = Null
                                        THEN "no_heartbeat" ELSE "heartbeat")
    /\ UNCHANGED <<topicId, client, opened, agentTopics, lastCall, serviceTopic,
                   published, spc, serviceRest>>

\* the submit of the heartbeat resolves: startListening calls subscribe, which
\* throws without a topic id and otherwise opens the subscription
LegacyHeartbeatResolved(i) ==
    /\ i \in 1..Len(starts)
    /\ starts[i] = "heartbeat"
    /\ serviceTopic' = Append(serviceTopic, LegacyHeartbeat)
    /\ IF Missing(topicId)
       THEN starts' = [starts EXCEPT ![i] = "no_subscription"] /\ UNCHANGED opened
       ELSE starts' = [starts EXCEPT ![i] = "subscribed"] /\ opened' = opened + 1
    /\ UNCHANGED <<topicId, client, isListening, agentTopics, lastCall, ncalls,
                   published, spc, serviceRest>>

\* the submit of the heartbeat is rejected: sendHeartbeat and startListening throw
LegacyHeartbeatRejected(i) ==
    /\ i \in 1..Len(starts)
    /\ starts[i] = "heartbeat"
    /\ starts' = [starts EXCEPT ![i] = "no_heartbeat"]
    /\ UNCHANGED <<topicId, client, opened, isListening, agentTopics, lastCall, ncalls,
                   serviceTopic, published, spc, serviceRest>>

\* the registration message on the registry topic and the announcement on the
\* outbound topic
Registered ==
    <<Submitted(0, "registry", "register", "none"),
      Submitted(0, "outbound", "register", "none")>>

\* OpenConvAIAgent.register(): throws unless both topics are set; otherwise it
\* submits the registration and announces it, or the submit is rejected
Register ==
    /\ ncalls < MaxCalls
    /\ ncalls' = ncalls + 1
    /\ IF Missing(agentTopics.inbound) \/ Missing(agentTopics.outbound)
       THEN /\ lastCall' = Call("register", "threw")
            /\ UNCHANGED published
       ELSE \/ /\ lastCall' = Call("register", "resolved")
               /\ published' = published \o Registered
            \/ /\ lastCall' = Call("register", "threw")
               /\ UNCHANGED published
    /\ UNCHANGED <<topicId, client, opened, isListening, starts, agentTopics,
                   serviceTopic, spc, serviceRest>>

\* OpenConvAIAgent.startListening(): throws unless the inbound topic is set;
\* otherwise it awaits the heartbeat
AgentStartListening ==
    /\ ncalls < MaxCalls
    /\ spc \in {"idle", "subscribed"}
    /\ ncalls' = ncalls + 1
    /\ IF Missing(agentTopics.inbound)
       THEN /\ lastCall' = Call("startListening", "threw")
            /\ UNCHANGED spc
       ELSE /\ lastCall' = Call("startListening", "pending")
            /\ spc' = "heartbeat"
    /\ UNCHANGED <<topicId, client, opened, isListening, starts, agentTopics,
                   serviceTopic, published, serviceRest>>

(***************************************************************************)
(* The subscriptions deliver the agent's own messages back: the acceptance *)
(* on the inbound topic, the responses on a connection topic, and what the *)
(* legacy listener submits to its topic.  A process runs one of the two    *)
(* listeners, as its command says.                                         *)
(***************************************************************************)
\* an envelope of the agent itself
OwnEnv(op) ==
    Members(<<Member(F_p, S_hcs_10), Member(F_op, op), Member(F_operator_id, S_self),
              Member(F_data, S_header)>>)

\* the content of a message the agent submitted: the connection_created envelope of
\* _handleConnectionRequest, the message envelope of _handleConnectionMessage (the
\* JSON text in the data field is kept as the text of an empty object)
OwnContent(sub) ==
    LET ms == OwnEnv(IF sub.op = "connection_created" THEN S_connection_created
                     ELSE S_message)
    IN Raw(Stringify(ms), JsonValue("object", ms))

\* the arrivals that delivered a message of the agent itself
EchoArrivals == {e.arrival : e \in echoed}

\* what the agent submitted to a topic it subscribes to and has not got back yet
Undelivered ==
    {k \in 1..Len(published) :
        /\ published[k].topic \in Channels
        /\ k \notin {e.entry : e \in echoed}}

\* a subscription callback is invoked with the next message of a peer
ArriveFromPeer ==
    /\ command = "hcs10"
    /\ listening
    /\ rpc \in {"idle", "ended", "threw"}
    /\ arrivals - Cardinality(echoed) < MaxRouterMsgs
    /\ channel' \in Channels
    /\ rawContent' \in RouterContents
    /\ rpc' = "received"
    /\ rtext' = Undefined
    /\ inCatch' = FALSE
    /\ failed' = FALSE
    /\ answer' = "none"
    /\ arrivals' = arrivals + 1
    /\ UNCHANGED <<published, listening, connVars, echoed, command>>

\* a subscription callback is invoked with a message the agent itself submitted to
\* the topic
Redeliver ==
    /\ command = "hcs10"
    /\ listening
    /\ rpc \in {"idle", "ended", "threw"}
    /\ \E k \in Undelivered :
          /\ channel' = published[k].topic
          /\ rawContent' = OwnContent(published[k])
          /\ echoed' = echoed \cup {[entry |-> k, arrival |-> arrivals + 1]}
    /\ rpc' = "received"
    /\ rtext' = Undefined
    /\ inCatch' = FALSE
    /\ failed' = FALSE
    /\ answer' = "none"
    /\ arrivals' = arrivals + 1
    /\ UNCHANGED <<published, listening, connVars, command>>

\* what the steps of the router leave alone when messages come back
notEcho == <<queryVars, chunkVars, concVars, startVars, taskVars, engineVars, legacyVars,
             serviceVars>>

\* startListening of the legacy listener has sent its heartbeat before it subscribed
SendHeartbeat ==
    /\ command = "listen"
    /\ serviceDelivered = 0
    /\ \A k \in 1..Len(serviceTopic) : serviceTopic[k] # LegacyHeartbeat
    /\ serviceTopic' = Append(serviceTopic, LegacyHeartbeat)
    /\ UNCHANGED <<serviceDelivered, registrations, protocolHandlers, lpc, lmsg, invoked,
                   lresponse, legacyRest>>

\* startListening has subscribed
IdleStart == spc = "subscribed"

\* no message on any topic
IdleTasks == tasks = << >>

\* new IntelEngine()
InitEngine ==
    /\ reportCount = 0
    /\ reports = << >>

\* the parts of the program a specification leaves at rest
IdleLate ==
    IdleStart /\ IdleTasks /\ InitEngine /\ InitLegacy /\ InitService /\ IdleEcho

\* every inbound message is a peer's or the echo of an acceptance
MaxInbound == 2 * MaxMsgs

vars == <<connVars, queryVars, chunkVars, concVars, routerVars, lateVars>>

\* the listening agent and its peers
Init == InitConn /\ IdleQuery /\ IdleChunk /\ IdleOther /\ IdleRouter /\ IdleLate

Next ==
    \/ PeerPublish /\ UNCHANGED notConn
    \/ Deliver /\ UNCHANGED notConn
    \/ \E h \in 1..Len(handlers) : CreateResolved(h) /\ UNCHANGED notConn
    \/ \E h \in 1..Len(handlers) : SubmitResolved(h) /\ UNCHANGED notConn
    \/ \E h \in 1..Len(handlers) : TransportRejected(h) /\ UNCHANGED notConn
    \/ \E h \in 1..Len(handlers) : NaturalLanguageFallback(h) /\ UNCHANGED notConn

Spec == Init /\ [][Next]_vars

\* the handling of one message, whatever its content
QueryInit == InitQuery /\ InitConn /\ IdleChunk /\ IdleOther /\ IdleRouter /\ IdleLate

QueryNext ==
    \/ HandleInboundMessage /\ UNCHANGED notQuery
    \/ ProcessQuery /\ UNCHANGED notQuery
    \/ ExtractAssetsCall /\ UNCHANGED notQuery

QuerySpec == QueryInit /\ [][QueryNext]_vars

\* the publishing of one message and a reader of its topic
ChunkInit == InitChunk /\ InitConn /\ IdleQuery /\ IdleOther /\ IdleRouter /\ IdleLate

ChunkNext ==
    \/ Tick /\ UNCHANGED notChunk
    \/ PublishStart /\ UNCHANGED notChunk
    \/ PublishChunk /\ UNCHANGED notChunk
    \/ PublishEnd /\ UNCHANGED notChunk
    \/ IngestFragment /\ UNCHANGED notChunk

ChunkSpec == ChunkInit /\ [][ChunkNext]_vars

\* two publishes on one topic, their awaited submits interleaving
ConcurrentInit ==
    InitChunk /\ InitOther /\ InitConn /\ IdleQuery /\ IdleRouter /\ IdleLate

ConcurrentNext ==
    \/ Tick /\ UNCHANGED notChunk
    \/ PublishStart /\ UNCHANGED notChunk
    \/ PublishChunk /\ UNCHANGED notChunk
    \/ PublishEnd /\ UNCHANGED notChunk
    \/ OtherStart /\ UNCHANGED <<connVars, queryVars, routerVars, lateVars>>
    \/ OtherChunk /\ UNCHANGED <<connVars, queryVars, routerVars, lateVars>>
    \/ OtherEnd /\ UNCHANGED <<connVars, queryVars, routerVars, lateVars>>

ConcurrentSpec == ConcurrentInit /\ [][ConcurrentNext]_vars

\* the router handling the messages of its topics one after the other
RouterInit ==
    IdleRouter /\ InitEstablished /\ IdleQuery /\ IdleChunk /\ IdleOther /\ IdleLate

RouterNext ==
    \/ Arrive /\ UNCHANGED notRouter
    \/ DispatchInbound /\ UNCHANGED notRouter
    \/ DispatchConnection /\ UNCHANGED notRouter
    \/ ConnectResolved /\ UNCHANGED notRouter
    \/ ConnectRejected /\ UNCHANGED notRouter
    \/ GeneratorsSucceed /\ UNCHANGED notRouter
    \/ GeneratorFails /\ UNCHANGED notRouter
    \/ PublishResolved /\ UNCHANGED notRouter
    \/ PublishRejected /\ UNCHANGED notRouter

RouterSpec == RouterInit /\ [][RouterNext]_vars

\* the agent from the call of startListening on
StartupInit ==
    /\ spc = "idle"
    /\ IdleRouter /\ InitConn /\ IdleQuery /\ IdleChunk /\ IdleOther
    /\ IdleTasks /\ InitEngine /\ InitLegacy /\ InitService /\ IdleEcho

StartupNext ==
    \/ StartListening
    \/ HeartbeatResolved
    \/ HeartbeatRejected
    \/ ArriveSubscribed /\ UNCHANGED notRouter
    \/ DispatchInbound /\ UNCHANGED notRouter
    \/ DispatchConnection /\ UNCHANGED notRouter
    \/ ConnectResolved /\ UNCHANGED notRouter
    \/ ConnectRejected /\ UNCHANGED notRouter
    \/ GeneratorsSucceed /\ UNCHANGED notRouter
    \/ GeneratorFails /\ UNCHANGED notRouter
    \/ PublishResolved /\ UNCHANGED notRouter
    \/ PublishRejected /\ UNCHANGED notRouter

StartupSpec == StartupInit /\ [][StartupNext]_vars

(***************************************************************************)
(* Handlers running at the same time: the callbacks of the subscriptions   *)
(* are async functions the transport does not await, so the handler of a   *)
(* message starts whatever the handlers of earlier messages are awaiting.  *)
(***************************************************************************)
\* the topics with a subscription: the inbound topic and two connection topics
TaskChannels == {"inbound", "connection 1", "connection 2"}

\* a message of a topic and the invocation of its handler: "queued" on the topic,
\* then awaiting ("create", "submit", "generate", "publish"), then "done"; slow
\* says that the generator call made for it never settles
Task(ch, op, pc, slow, t) == [channel |-> ch, op |-> op, pc |-> pc, slow |-> slow, topic |-> t]

\* what the steps of the handlers leave alone, the topics and the registry aside
taskRest == <<queryVars, chunkVars, concVars, startVars, engineVars, legacyVars,
              inbound, delivered, handlers, outbound, sent, channel, rawContent, rpc,
              rtext, inCatch, failed, answer, listening, arrivals,
    serviceVars, echoVars>>

\* the agent listening, connections established on topics 1 and 2
TaskInit ==
    /\ tasks = << >>
    /\ IdleRouter /\ IdleQuery /\ IdleChunk /\ IdleOther
    /\ IdleStart /\ InitEngine /\ InitLegacy /\ InitService /\ IdleEcho
    /\ inbound = << >>
    /\ delivered = 0
    /\ handlers = << >>
    /\ connections = StoreConnection(StoreConnection(<< >>, S_X, 1), S_self, 2)
    /\ subscriptions = {1, 2}
    /\ outbound = << >>
    /\ nextTopic = 3
    /\ sent = 0

\* a peer submits a connection request to the inbound topic, or a message to the
\* inbound topic or to a connection topic
PeerSubmits ==
    /\ Len(tasks) < MaxTasks
    /\ \E ch \in TaskChannels, op \in {"connection_request", "message"}, slow \in BOOLEAN :
          /\ op = "connection_request" => (ch = "inbound" /\ ~slow)
          /\ tasks' = Append(tasks, Task(ch, op, "queued", slow, 0))
    /\ UNCHANGED <<published, connections, subscriptions, nextTopic, taskRest>>

\* a transport that awaits the handler of a message before it invokes the callback
\* for the next one
InvocableAfterCompletion(ts, t) == \A u \in 1..(t - 1) : ts[u].pc = "done"

\* the subscription of a topic invokes its callback for the messages of the topic
\* in their order, and does not await the promise the callback returns
Invocable(ts, t) ==
    \A u \in 1..(t - 1) : ts[u].channel = ts[t].channel => ts[u].pc # "queued"

\* the callback is invoked: the handler runs up to its first await, the topic
\* creation of _handleConnectionRequest or the generator call of _processQuery
Invoke(t) ==
    /\ t \in 1..Len(tasks)
    /\ tasks[t].pc = "queued"
    /\ Invocable(tasks, t)
    /\ tasks' = [tasks EXCEPT ![t].pc =
                    IF tasks[t].op = "connection_request" THEN "create" ELSE "generate"]
    /\ UNCHANGED <<published, connections, subscriptions, nextTopic, taskRest>>

\* the topic creation settles: the handler stores the connection and submits the
\* acceptance
TaskCreateSettles(t) ==
    /\ t \in 1..Len(tasks)
    /\ tasks[t].pc = "create"
    /\ connections' = StoreConnection(connections, S_X, nextTopic)
    /\ tasks' = [tasks EXCEPT ![t].pc = "submit", ![t].topic = nextTopic]
    /\ nextTopic' = nextTopic + 1
    /\ UNCHANGED <<published, subscriptions, taskRest>>

\* the submit of the acceptance settles: the handler subscribes and ends
TaskSubmitSettles(t) ==
    /\ t \in 1..Len(tasks)
    /\ tasks[t].pc = "submit"
    /\ published' = Append(published, Submitted(t, "inbound", "connection_created", "none"))
    /\ subscriptions' = subscriptions \cup {tasks[t].topic}
    /\ tasks' = [tasks EXCEPT ![t].pc = "done"]
    /\ UNCHANGED <<connections, nextTopic, taskRest>>

\* the generator call of _processQuery settles, unless it is one that never does
GeneratorSettles(t) ==
    /\ t \in 1..Len(tasks)
    /\ tasks[t].pc = "generate"
    /\ ~tasks[t].slow
    /\ tasks' = [tasks EXCEPT ![t].pc = "publish"]
    /\ UNCHANGED <<published, connections, subscriptions, nextTopic, taskRest>>

\* the submit of the response settles: to the outbound topic for a message of the
\* inbound topic, to the connection topic for a message of a connection topic
TaskPublishSettles(t) ==
    /\ t \in 1..Len(tasks)
    /\ tasks[t].pc = "publish"
    /\ published' = Append(published,
          Submitted(t, IF tasks[t].channel = "inbound" THEN "outbound" ELSE tasks[t].channel,
                    "message", "market_report"))
    /\ tasks' = [tasks EXCEPT ![t].pc = "done"]
    /\ UNCHANGED <<connections, subscriptions, nextTopic, taskRest>>

TaskNext ==
    \/ PeerSubmits
    \/ \E t \in 1..MaxTasks : Invoke(t)
    \/ \E t \in 1..MaxTasks : TaskCreateSettles(t)
    \/ \E t \in 1..MaxTasks : TaskSubmitSettles(t)
    \/ \E t \in 1..MaxTasks : GeneratorSettles(t)
    \/ \E t \in 1..MaxTasks : TaskPublishSettles(t)

\* the subscriptions deliver every message of their topics, the event loop runs a
\* handler on once the transport call it awaits has settled, and so it does once a
\* generator call has settled; a slow generator call never settles
TaskSpec ==
    /\ TaskInit
    /\ [][TaskNext]_vars
    /\ \A t \in 1..MaxTasks :
          /\ WF_vars(Invoke(t))
          /\ WF_vars(TaskCreateSettles(t))
          /\ WF_vars(TaskSubmitSettles(t))
          /\ WF_vars(GeneratorSettles(t))
          /\ WF_vars(TaskPublishSettles(t))

(***************************************************************************)
(* IntelEngine.generateReport: calls in flight at the same time.           *)
(***************************************************************************)
\* the focus option of the calls
Focuses == {"prices", "narratives", "general"}

\* a call of generateReport: "gathering" at the await of Promise.allSettled, then
\* "returned" with the number in the title of its report
ReportCall(focus, pc, number) == [focus |-> focus, pc |-> pc, number |-> number]

engineRest == <<connVars, queryVars, chunkVars, concVars, routerVars, startVars,
                taskVars, legacyVars,
    serviceVars, echoVars>>

\* generateReport up to the await of the price and news fetches
GenerateReportStart ==
    /\ Len(reports) < MaxReports
    /\ \E focus \in Focuses :
          reports' = Append(reports, ReportCall(focus, "gathering", 0))
    /\ UNCHANGED <<reportCount, engineRest>>

\* a title built from the counter without storing the increment
ReportCountAfterNoIncrement(count) == count

\* ++this.reportCount
ReportCountAfter(count) == count + 1

\* the fetches of call i have settled: generateReport builds the report, its title
\* from the incremented counter, and returns it
GenerateReportFinish(i) ==
    /\ i \in 1..Len(reports)
    /\ reports[i].pc = "gathering"
    /\ reportCount' = ReportCountAfter(reportCount)
    /\ reports' = [reports EXCEPT ![i] = ReportCall(reports[i].focus, "returned", reportCount')]
    /\ UNCHANGED engineRest

\* an engine and the calls made of its generateReport
EngineInit ==
    /\ InitEngine
    /\ InitConn /\ IdleQuery /\ IdleChunk /\ IdleOther /\ IdleRouter
    /\ IdleStart /\ IdleTasks /\ InitLegacy /\ InitService /\ IdleEcho

EngineNext ==
    \/ GenerateReportStart
    \/ \E i \in 1..MaxReports : GenerateReportFinish(i)

EngineSpec == EngineInit /\ [][EngineNext]_vars

\* a listening AgentProtocol, its peers and the users of registerHandler
LegacyInit ==
    /\ InitLegacy
    /\ InitConn /\ IdleQuery /\ IdleChunk /\ IdleOther /\ IdleRouter
    /\ IdleStart /\ IdleTasks /\ InitEngine /\ InitService
    /\ command = "listen" /\ echoed = {}

LegacyNext ==
    \/ RegisterHandler
    \/ PeerSubmitsRaw
    \/ SendQuery
    \/ LegacyDeliver
    \/ HandlerReturns
    \/ HandlerThrows
    \/ LegacyPublishResolved
    \/ LegacyPublishRejected

LegacySpec == LegacyInit /\ [][LegacyNext]_vars

\* fresh objects: no client, no topic
ServiceInit ==
    /\ InitService
    /\ spc = "idle"
    /\ IdleRouter /\ InitConn /\ IdleQuery /\ IdleChunk /\ IdleOther
    /\ IdleTasks /\ InitEngine /\ InitLegacy /\ IdleEcho

ServiceNext ==
    \/ Initialize
    \/ SetTopicId
    \/ SetTopics
    \/ PublishReport
    \/ Subscribe
    \/ GetTopicInfo
    \/ LegacyStartListening
    \/ \E i \in 1..MaxCalls : LegacyHeartbeatResolved(i)
    \/ \E i \in 1..MaxCalls : LegacyHeartbeatRejected(i)
    \/ Register
    \/ AgentStartListening
    \/ HeartbeatResolved
    \/ HeartbeatRejected

ServiceSpec == ServiceInit /\ [][ServiceNext]_vars

\* a listening process: the HCS-10 agent with a connection established, or the
\* legacy listener
EchoInit ==
    /\ command \in {"hcs10", "listen"}
    /\ echoed = {}
    /\ IdleRouter /\ InitEstablished /\ IdleQuery /\ IdleChunk /\ IdleOther
    /\ IdleStart /\ IdleTasks /\ InitEngine /\ InitLegacy /\ InitService

EchoNext ==
    \/ ArriveFromPeer /\ UNCHANGED notEcho
    \/ Redeliver /\ UNCHANGED notEcho
    \/ command = "hcs10" /\ DispatchInbound /\ UNCHANGED notRouter
    \/ command = "hcs10" /\ DispatchConnection /\ UNCHANGED notRouter
    \/ command = "hcs10" /\ ConnectResolved /\ UNCHANGED notRouter
    \/ command = "hcs10" /\ ConnectRejected /\ UNCHANGED notRouter
    \/ command = "hcs10" /\ GeneratorsSucceed /\ UNCHANGED notRouter
    \/ command = "hcs10" /\ GeneratorFails /\ UNCHANGED notRouter
    \/ command = "hcs10" /\ PublishResolved /\ UNCHANGED notRouter
    \/ command = "hcs10" /\ PublishRejected /\ UNCHANGED notRouter
    \/ SendHeartbeat
    \/ command = "listen" /\ PeerSubmitsRaw
    \/ command = "listen" /\ SendQuery
    \/ command = "listen" /\ LegacyDeliver
    \/ command = "listen" /\ HandlerReturns
    \/ command = "listen" /\ HandlerThrows
    \/ command = "listen" /\ LegacyPublishResolved
    \/ command = "listen" /\ LegacyPublishRejected

EchoSpec == EchoInit /\ [][EchoNext]_vars

\* the event loop runs a continuation once the awaited transport call settles,
\* and the subscription delivers every message of the topic
LiveNext ==
    \/ PeerPublishLive /\ UNCHANGED notConn
    \/ Deliver /\ UNCHANGED notConn
    \/ \E h \in 1..Len(handlers) : CreateResolved(h) /\ UNCHANGED notConn
    \/ \E h \in 1..Len(handlers) : SubmitResolved(h) /\ UNCHANGED notConn
    \/ \E h \in 1..Len(handlers) : TransportRejected(h) /\ UNCHANGED notConn
    \/ \E h \in 1..Len(handlers) : NaturalLanguageFallback(h) /\ UNCHANGED notConn

FairSpec ==
    /\ Init
    /\ [][LiveNext]_vars
    /\ WF_vars(Deliver /\ UNCHANGED notConn)
    /\ \A h \in 1..MaxInbound :
          /\ WF_vars((CreateResolved(h) \/ SubmitResolved(h) \/ TransportRejected(h))
                        /\ UNCHANGED notConn)
          /\ WF_vars(NaturalLanguageFallback(h) /\ UNCHANGED notConn)

\* getStatus().connections
GetStatusConnections == MapSize(connections)

IsFrom(i, op, who) == inbound[i].op = op /\ inbound[i].operator_id = who

Ended(h) == handlers[h].pc \in {"done", "nl_done", "rejected"}

(***************************************************************************)
(* Connection registry: lifecycle, uniqueness, last request wins, close.   *)
(***************************************************************************)
\* the messages of peer who among the delivered ones
DeliveredFrom(who) == {i \in 1..delivered : inbound[i].operator_id = who}

\* C1: for every peer X, once a connection_request from X and a later
\* close_connection from X have both been fully handled (and no newer request of X
\* has been delivered), the registry holds no entry for X; and the topics created
\* for two requests are different, so a request after the close gets a fresh channel.
C1_ConnectionLifecycle ==
    /\ \A who \in Peers : \A i, j \in DeliveredFrom(who) :
          ( /\ i < j
            /\ IsFrom(i, "connection_request", who)
            /\ IsFrom(j, "close_connection", who)
            /\ \A k \in DeliveredFrom(who) : k > j => inbound[k].op = "close_connection"
            /\ \A k \in DeliveredFrom(who) : Ended(k) )
          => ~MapHas(connections, who)
    /\ \A i, k \in 1..Len(handlers) :
          (i < k /\ handlers[i].topic # 0 /\ handlers[k].topic # 0)
          => handlers[i].topic # handlers[k].topic

C3_LastRequestWins ==
    \A who \in Peers : \A i, j \in DeliveredFrom(who) :
        ( /\ i < j
          /\ IsFrom(i, "connection_request", who)
          /\ IsFrom(j, "connection_request", who)
          /\ \A k \in DeliveredFrom(who) : k > i => (k <= j /\ inbound[k].op = "connection_request")
          /\ handlers[i].pc = "done"
          /\ handlers[j].pc = "done" )
        => /\ MapHas(connections, who)
           /\ MapGet(connections, who).topicId = handlers[j].topic

\* C4: handling a close_connection of a peer without an entry changes neither the
\* registry nor any topic and ends the handler normally; handling the same close a
\* second time leaves the registry as the first handling left it.
C4_CloseIdempotent ==
    [][\A who \in Peers :
         (delivered' = delivered + 1 /\ IsFrom(delivered', "close_connection", who))
         => /\ ~MapHas(connections, who)
               => /\ connections' = connections
                  /\ inbound' = inbound
                  /\ outbound' = outbound
                  /\ subscriptions' = subscriptions
            /\ handlers'[delivered'].pc = "done"
            /\ ~MapHas(connections', who)
            /\ ProtocolRegistry(inbound[delivered'], connections') = connections'
      ]_vars

\* a second close of a peer has been handled while the other peer holds an entry
C4_Witness ==
    \E who \in Peers : \E i, j \in DeliveredFrom(who) :
        /\ i < j
        /\ j = delivered
        /\ IsFrom(i, "close_connection", who)
        /\ IsFrom(j, "close_connection", who)
        /\ MapSize(connections) = 1

\* C5: every delivered connection_request, of any operator and whatever the registry
\* holds, leads to its handler having ended, or to a transport call of it having
\* failed; the handler stores a fresh topic for the requester first, the acceptance
\* naming that topic is published on the inbound topic only after that, and the
\* subscription to the topic is opened only once the acceptance is published.
C5_OpenAgentAcceptance ==
    /\ \A h \in 1..MaxInbound :
          (h <= delivered /\ inbound[h].op = "connection_request")
          ~> (h <= Len(handlers) /\ handlers[h].pc \in {"done", "nl", "nl_done", "rejected"})
    /\ [](\A h \in 1..Len(handlers) :
            (inbound[h].op = "connection_request" /\ handlers[h].pc = "done")
            => /\ handlers[h].topic # 0
               /\ \E i \in 1..Len(inbound) : inbound[i] = Acceptance(handlers[h].topic)
               /\ handlers[h].topic \in subscriptions)
    /\ [][\A h \in 1..Len(handlers) :
            /\ (handlers[h].pc = "create" /\ handlers'[h].pc = "submit")
               => /\ MapHas(connections', inbound[h].operator_id)
                  /\ MapGet(connections', inbound[h].operator_id).topicId = handlers'[h].topic
                  /\ \A g \in 1..Len(handlers) : handlers[g].topic # handlers'[h].topic
                  /\ \A i \in 1..Len(inbound') : inbound'[i] # Acceptance(handlers'[h].topic)
                  /\ handlers'[h].topic \notin subscriptions'
            /\ (handlers'[h].topic \in subscriptions' /\ handlers'[h].topic \notin subscriptions)
               => /\ handlers[h].pc = "submit"
                  /\ inbound' = Append(inbound, Acceptance(handlers[h].topic))
         ]_vars

\* a request of a peer that already holds an entry has been accepted
C5_Witness ==
    \E g, h \in 1..Len(handlers) :
        /\ g < h
        /\ inbound[g].op = "connection_request"
        /\ inbound[h].op = "connection_request"
        /\ inbound[g].operator_id = inbound[h].operator_id
        /\ handlers[g].pc = "done"
        /\ handlers[h].pc = "done"
        /\ handlers[h].topic \in subscriptions

(***************************************************************************)
(* Classification, intent priority and asset extraction.                   *)
(***************************************************************************)
\* the text is JSON
ParsesAsJson(r) == r.json.kind # "SyntaxError"

\* a member named p or protocol holds the protocol tag
HasProtocolTag(r) ==
    \E i \in 1..Len(r.json.members) :
        /\ r.json.members[i].name \in {F_p, F_protocol}
        /\ r.json.members[i].value = S_hcs_10

\* a member type holds "query", or a member query holds a non-empty text
HasQueryMarker(r) ==
    \E i \in 1..Len(r.json.members) :
        \/ r.json.members[i].name = F_type /\ r.json.members[i].value = S_query
        \/ r.json.members[i].name = F_query /\ Len(r.json.members[i].value) > 0

ReferenceVariant(r) ==
    IF ParsesAsJson(r) /\ HasProtocolTag(r) THEN "protocol"
    ELSE IF ParsesAsJson(r) /\ HasQueryMarker(r) THEN "direct"
    ELSE "nl"

\* C6: every raw content is passed to exactly one handler, none is rejected:
\* the protocol handler if it parses and carries the protocol tag, else the
\* direct-query handler if it parses and carries a query marker, else the
\* natural-language handler, which is given the raw text unchanged.
C6_ClassifierTotal ==
    qpc \in {"query", "done", "answered"}
    => /\ route \in {"protocol", "direct", "nl"}
       /\ route = ReferenceVariant(raw)
       /\ route = "nl" => (qpc # "done" /\ queryText = raw.text)

\* an object without tag and marker has gone to the natural-language handler
C6_Witness ==
    /\ qpc = "query"
    /\ route = "nl"
    /\ raw.json.kind = "object"
    /\ Len(raw.json.members) > 0
    /\ queryText = Stringify(raw.json.members)

PriceKeywords == {S_price, S_how_much, S_worth}

NarrativeKeywords == {S_narrative, S_trend, S_signal}

NetworkKeywords == {S_hedera, S_hbar, S_network, S_health}

CapabilityKeywords == {S_capabilit, S_what_can_you, S_help, S_who_are_you}

AnyOccurs(keywords, text) == \E k \in keywords : Includes(text, k)

\* C7: the response type is price_check if a price keyword occurs in the
\* lower-cased query text, else narrative_detection if a narrative keyword occurs,
\* else the network-health type if a network keyword occurs, else capabilities if
\* a capability keyword occurs, else the full market report.
C7_IntentPriority ==
    qpc = "answered"
    => LET q == IF queryText = Undefined THEN << >> ELSE ToLowerCase(queryText) IN
       responseType =
          CASE AnyOccurs(PriceKeywords, q) -> "price_check"
            [] ~AnyOccurs(PriceKeywords, q) /\ AnyOccurs(NarrativeKeywords, q)
                 -> "narrative_detection"
            [] ~AnyOccurs(PriceKeywords \cup NarrativeKeywords, q)
               /\ AnyOccurs(NetworkKeywords, q)
                 -> "hedera_intelligence"
            [] ~AnyOccurs(PriceKeywords \cup NarrativeKeywords \cup NetworkKeywords, q)
               /\ AnyOccurs(CapabilityKeywords, q)
                 -> "capabilities"
            [] OTHER -> "market_report"

\* a text with a narrative keyword before a price keyword is a price_check
C7_Witness ==
    /\ qpc = "answered"
    /\ queryText = Join(<<S_trends, S_Price>>)
    /\ responseType = "price_check"

\* the symbols an alias of which occurs in the text
SymbolsIn(text) ==
    {AssetMap[i][2] : i \in {j \in 1..Len(AssetMap) : Includes(text, AssetMap[j][1])}}

\* the position of the first occurrence of an alias of the symbol
FirstOccurrence(text, symbol) ==
    LET at == {p \in 1..Len(text) :
                 \E j \in 1..Len(AssetMap) :
                     /\ AssetMap[j][2] = symbol
                     /\ p + Len(AssetMap[j][1]) - 1 <= Len(text)
                     /\ SubSeq(text, p, p + Len(AssetMap[j][1]) - 1) = AssetMap[j][1]}
    IN CHOOSE p \in at : \A o \in at : p <= o

\* the position of the symbol in the dictionary
DictionaryRank(symbol) ==
    CHOOSE j \in 1..Len(AssetMap) :
        AssetMap[j][2] = symbol /\ \A i \in 1..(j - 1) : AssetMap[i][2] # symbol

\* the list _extractAssets found, null standing for none
ExtractedList == IF extracted = Null THEN << >> ELSE extracted

\* C8: _extractAssets returns the symbols of the aliases occurring in the text,
\* each once, in the order of their first occurrence in the text.
C8_FirstOccurrenceOrder ==
    qpc = "extracted"
    => /\ {ExtractedList[i] : i \in 1..Len(ExtractedList)} = SymbolsIn(raw.text)
       /\ \A i, j \in 1..Len(ExtractedList) :
             i < j => /\ ExtractedList[i] # ExtractedList[j]
                      /\ FirstOccurrence(raw.text, ExtractedList[i])
                            < FirstOccurrence(raw.text, ExtractedList[j])

\* C8, amended: _extractAssets returns the symbols of the aliases occurring in the
\* text, each once, in the order of the alias dictionary (BTC, ETH, SOL, HBAR, AVAX,
\* NEAR, DOT) whatever their order in the text.
C8_DictionaryOrder ==
    qpc = "extracted"
    => /\ {ExtractedList[i] : i \in 1..Len(ExtractedList)} = SymbolsIn(raw.text)
       /\ \A i, j \in 1..Len(ExtractedList) :
             i < j => /\ ExtractedList[i] # ExtractedList[j]
                      /\ DictionaryRank(ExtractedList[i]) < DictionaryRank(ExtractedList[j])

\* "ethereum bitcoin" has given BTC before ETH
C8_Witness ==
    /\ qpc = "extracted"
    /\ raw.text = Join(<<S_ethereum, S_bitcoin>>)
    /\ extracted = <<"BTC", "ETH">>

\* C9: _extractAssets returns its empty result (null) exactly when no alias occurs
\* in the text; a price_check or full report then requests the report for the default
\* basket BTC, ETH, SOL, HBAR, and otherwise for exactly the symbols of the text.
C9_DefaultBasket ==
    /\ qpc = "extracted" => (extracted = Null <=> SymbolsIn(raw.text) = {})
    /\ (qpc = "answered" /\ responseType \in {"price_check", "market_report"})
       => LET q == IF queryText = Undefined THEN << >> ELSE ToLowerCase(queryText)
              assets == generatorCalls[1].assets
          IN /\ Len(generatorCalls) = 1
             /\ generatorCalls[1].generator = "generateReport"
             /\ IF SymbolsIn(q) = {}
                THEN assets = <<"BTC", "ETH", "SOL", "HBAR">>
                ELSE /\ {assets[i] : i \in 1..Len(assets)} = SymbolsIn(q)
                     /\ Len(assets) = Cardinality(SymbolsIn(q))

\* a price query naming no asset has requested the default basket
C9_Witness ==
    /\ qpc = "answered"
    /\ responseType = "price_check"
    /\ SymbolsIn(ToLowerCase(queryText)) = {}
    /\ generatorCalls = <<GenerateReport(DefaultAssets, "prices")>>

(***************************************************************************)
(* Chunk codec.                                                            *)
(***************************************************************************)
\* the positions of the fragments on the topic
ChunkPositions == {k \in 1..Len(topicLog) : topicLog[k].kind = "chunk"}

\* C10: once every fragment of a chunked message has been published and handed to
\* ingest, in whatever order and however often, ingest has returned the original
\* message, exactly once; and it never returns anything else.
C10_ChunkRoundTrip ==
    /\ \A i \in 1..Len(reassembled) : reassembled[i] = message
    /\ Len(reassembled) <= 1
    /\ (cpc = "done" /\ ChunkPositions # {} /\ fed = ChunkPositions)
       => reassembled = <<message>>

\* C12: all fragments published for one message carry the same id, however much
\* time passes between the awaited submissions.
C12_SharedMessageId ==
    \A i, j \in ChunkPositions : topicLog[i].id = topicLog[j].id

\* the fragments on the topic, in the order of their submission
Fragments == SelectSeq(topicLog, LAMBDA entry : entry.kind = "chunk")

\* the data fields of the fragments, concatenated in the order of the sequence
RECURSIVE DataOf(_)
DataOf(fragments) ==
    IF fragments = << >> THEN << >>
    ELSE Head(fragments).data \o DataOf(Tail(fragments))

C13_FreshMessageId ==
    \A i \in ChunkPositions \cap other.at, j \in ChunkPositions \ other.at :
        topicLog[i].id # topicLog[j].id

(***************************************************************************)
(* The router: fragments, response channel, unknown operations, failures.  *)
(***************************************************************************)
\* the content is a chunk envelope: an object with a _chunk member
HasChunkHeader(r) ==
    \E i \in 1..Len(r.json.members) : r.json.members[i].name = F__chunk

\* the messages submitted while the current message was handled
Answers == {k \in 1..Len(published) : published[k].msg = arrivals}

\* C11: a chunk envelope arriving on the inbound topic or on a connection topic is
\* never passed to _processQuery, nothing is submitted in answer to it, and its
\* handling does not throw.
C11_NoPartialDelivery ==
    HasChunkHeader(rawContent)
    => /\ rpc \notin {"query", "publish", "threw"}
       /\ Answers = {}

\* the content is a structured envelope with the operation "message"
IsMessageEnvelope(r) ==
    /\ ParsesAsJson(r)
    /\ HasProtocolTag(r)
    /\ OpOf(r.json) = S_message

\* C16: the response to a structured envelope with the operation "message" is
\* submitted to the topic the envelope arrived on and to no other.
C16_SameChannel ==
    IsMessageEnvelope(rawContent)
    => \A k \in Answers : published[k].topic = channel

\* C16, amended: the response to a structured envelope with the operation "message"
\* that arrived on the inbound topic is submitted to the outbound topic, the
\* response to one that arrived on a connection topic to that connection topic,
\* and to no other topic.
C16_ResponseChannel ==
    IsMessageEnvelope(rawContent)
    => \A k \in Answers :
          published[k].topic = (IF channel = "inbound" THEN "outbound" ELSE "connection")

\* both have happened: an envelope that arrived on a connection topic is answered
\* there after one that arrived on the inbound topic was answered on the outbound
C16_Witness ==
    /\ rpc = "ended"
    /\ channel = "connection"
    /\ IsMessageEnvelope(rawContent)
    /\ \E k \in Answers : published[k].topic = "connection" /\ published[k].op = "message"
    /\ \E k \in 1..Len(published) :
          /\ published[k].msg = arrivals - 1
          /\ published[k].topic = "outbound"
          /\ published[k].op = "message"

\* the content is a structured envelope whose operation is none of the three
IsUnknownOperation(r) ==
    /\ ParsesAsJson(r)
    /\ HasProtocolTag(r)
    /\ OpOf(r.json) \notin {S_connection_request, S_message, S_close_connection}

C19_ErrorResponse ==
    (failed /\ rpc \in {"ended", "threw"})
    => /\ rpc = "ended"
       /\ \E k \in Answers : published[k].type = "error"

\* C20: whatever happened to a message (generator failure, publish failure,
\* malformed content), the subscriptions are still there once its handling is over,
\* so that the next message can be handled.
C20_FailureTransparent ==
    rpc \in {"ended", "threw"} => listening

\* C15: whatever is submitted to the transport, a message submitted whole or a
\* chunk envelope, is within the ceiling once encoded.
C15_SizeCeiling ==
    \A k \in 1..Len(topicLog) : SubmittedBytes(topicLog[k]) <= ByteLimit

\* C18: a direct query whose query type names no known handler is answered with an
\* error response, never with a report.
C18_UnknownQueryType ==
    (qpc = "answered" /\ route = "direct" /\ queryText \notin KnownQueryTypes)
    => responseType = "error"

(***************************************************************************)
(* Transport failures, closed connections and the entries of the registry. *)
(***************************************************************************)
\* C21: when the topic creation of a connection request or the submit of a response
\* is rejected while a message is handled, the handling of that message ends there:
\* no query is processed for it, nothing is submitted for it and nothing is thrown.
C21_TransportContained ==
    [][( \/ (rpc = "connect" /\ subscriptions' = subscriptions)
         \/ (rpc = "publish" /\ published' = published) )
       => /\ rpc' = "ended"
          /\ published' = published
          /\ listening' = listening]_vars

\* C29: a response is submitted to the connection topic recorded for peer X (topic 1)
\* only while the registry holds that topic for X: none after a close_connection of
\* X, none after a newer connection_request of X replaced the entry.
C29_ClosedConnectionSilent ==
    (channel = "connection" /\ Answers # {})
    => /\ MapHas(connections, S_X)
       /\ MapGet(connections, S_X).topicId = 1

\* C30: once the handler of a connection_request has ended, by returning or by a
\* failure of one of its transport calls, the registry holds the entry that handler
\* wrote only if its acceptance is on the inbound topic and the subscription to its
\* connection topic is open.
C30_EntriesEstablished ==
    \A h \in 1..Len(handlers) :
        ( /\ Ended(h)
          /\ handlers[h].topic # 0
          /\ MapHas(connections, inbound[h].operator_id)
          /\ MapGet(connections, inbound[h].operator_id).topicId = handlers[h].topic )
        => /\ \E i \in 1..Len(inbound) : inbound[i] = Acceptance(handlers[h].topic)
           /\ handlers[h].topic \in subscriptions

(***************************************************************************)
(* Direct queries and natural language on the inbound topic.               *)
(***************************************************************************)
\* the operation a known query type names, as the type of its response
NamedOperation(queryType) ==
    CASE queryType = S_price_check -> "price_check"
      [] queryType = S_narrative_detection -> "narrative_detection"
      [] queryType = S_hedera_network_stats -> "hedera_intelligence"
      [] queryType = S_capabilities -> "capabilities"
      [] queryType = S_market_report -> "market_report"

\* the message being handled is a direct query of a known query type
IsKnownDirectQuery ==
    /\ Classify(rawContent) = "direct"
    /\ Field(JSONParse(rawContent), F_queryType) \in KnownQueryTypes

\* the message being handled is natural language: no JSON, or JSON without the
\* protocol tag and without a query marker
IsNaturalLanguage == Classify(rawContent) = "nl"

\* the response type the claim gives the message being handled
ResolvedOperation ==
    IF IsKnownDirectQuery
    THEN NamedOperation(Field(JSONParse(rawContent), F_queryType))
    ELSE ResponseType(QueryOf(rawContent.text))

Heartbeats == {k \in 1..Len(published) : published[k].op = "heartbeat"}

\* C22: startListening submits the heartbeat to the outbound topic exactly once and
\* subscribes only when it is published: once the subscription is open, and so
\* whenever an inbound message is handled, the heartbeat is the first message the
\* agent has published.
C22_HeartbeatBeforeSubscription ==
    /\ Cardinality(Heartbeats) <= 1
    /\ (spc = "subscribed" \/ arrivals > 0)
       => /\ Heartbeats = {1}
          /\ published[1] = Heartbeat

(***************************************************************************)
(* No head-of-line blocking.                                               *)
(***************************************************************************)
\* C23: whatever generator calls are pending, and even if they never settle, every
\* connection request on the inbound topic is accepted (its acceptance is on the
\* inbound topic and its connection topic subscribed), and every message on a
\* connection topic whose own generator call settles is answered on that topic.
C23_NoHeadOfLineBlocking ==
    \A t \in 1..MaxTasks :
        /\ (t <= Len(tasks) /\ tasks[t].op = "connection_request")
           ~> ( /\ t <= Len(tasks)
                /\ tasks[t].pc = "done"
                /\ tasks[t].topic \in subscriptions
                /\ \E k \in 1..Len(published) :
                      published[k] = Submitted(t, "inbound", "connection_created", "none") )
        /\ (t <= Len(tasks) /\ tasks[t].op = "message" /\ tasks[t].channel # "inbound"
              /\ ~tasks[t].slow)
           ~> ( /\ t <= Len(tasks)
                /\ tasks[t].pc = "done"
                /\ \E k \in 1..Len(published) :
                      published[k].msg = t /\ published[k].topic = tasks[t].channel )

\* the generator call for the first message, on connection topic 1, is pending and
\* never settles; the connection request and the message on connection topic 2
\* that arrived after it have been accepted and answered
C23_Witness ==
    /\ Len(tasks) = 3
    /\ tasks[1] = Task("connection 1", "message", "generate", TRUE, 0)
    /\ \E t, u \in 2..3 :
          /\ tasks[t] = Task("inbound", "connection_request", "done", FALSE, 3)
          /\ tasks[u] = Task("connection 2", "message", "done", FALSE, 0)
          /\ \E k \in 1..Len(published) :
                published[k] = Submitted(u, "connection 2", "message", "market_report")

(***************************************************************************)
(* Report counter.                                                         *)
(***************************************************************************)
\* the calls of generateReport that have returned
Returned == {i \in 1..Len(reports) : reports[i].pc = "returned"}

\* C26: reportCount is 0 before any call, is always the number of calls that have
\* returned, so n once n calls have completed in whatever interleaving, and no two
\* reports carry the same number in their title.
C26_ReportCounter ==
    /\ reports = << >> => reportCount = 0
    /\ reportCount = Cardinality(Returned)
    /\ \A i, j \in Returned : i # j => reports[i].number # reports[j].number
    /\ \A i \in Returned : reports[i].number \in 1..reportCount

\* three calls in flight at once have returned in the reverse of their order
C26_Witness ==
    /\ Len(reports) = 3
    /\ reportCount = 3
    /\ reports[1].number = 3
    /\ reports[2].number = 2
    /\ reports[3].number = 1

\* a well-formed object with protocol 'hedera-intel' and type 'query'
IsLegacyQuery(c) ==
    /\ c.json.kind = "object"
    /\ Field(c.json, F_protocol) = S_hedera_intel
    /\ Field(c.json, F_type) = S_query

\* C24: for every inbound message that is not a well-formed object with protocol
\* 'hedera-intel' and type 'query', processMessage returns null and the listener
\* publishes nothing: once such a message is delivered, the callback has ended
\* without a response.
C24_NonQueriesIgnored ==
    (serviceDelivered > 0 /\ ~IsLegacyQuery(lmsg)) =>
        (lresponse = NoResponse /\ lpc = "ended")

\* the handler of the last call of registerHandler for a query type
LastRegistered(log, queryType) ==
    LET at == {i \in 1..Len(log) : log[i].queryType = queryType} IN
    IF at = {} THEN NoHandler
    ELSE log[CHOOSE i \in at : \A j \in at : j <= i].handler

\* the query type a legacy query asks for, in either spelling of the field
Requested(c) ==
    IF Field(c.json, F_queryType) \notin {Undefined, << >>}
    THEN Field(c.json, F_queryType)
    ELSE Field(c.json, F_query_type)

\* the responses of the listener on the topic
FromListener == {k \in 1..Len(serviceTopic) : serviceTopic[k].by = "listener"}

\* C25: for every legacy query whose queryType has a registered handler, the
\* handler invoked is the one of the last registerHandler call for that queryType,
\* and when it succeeds processMessage returns one message with protocol
\* 'hedera-intel', type 'response', the queryType echoed and the result fields of
\* that handler (status 'ok' for the default handlers); no delivered message gets
\* more than one response.
C25_HandlerResponse ==
    /\ [](Cardinality(FromListener) <= serviceDelivered)
    /\ [][(serviceDelivered' = serviceDelivered + 1
            /\ IsLegacyQuery(lmsg')
            /\ LastRegistered(registrations, Requested(lmsg')) # NoHandler)
          => (/\ lpc' = "handler"
              /\ invoked' = LastRegistered(registrations, Requested(lmsg')))]_vars
    /\ [][(lpc = "handler" /\ lpc' = "publish" /\ lresponse' # ErrorResponse)
          => (/\ lresponse'.kind = "object"
              /\ Field(lresponse', F_protocol) = S_hedera_intel
              /\ Field(lresponse', F_type) = S_response
              /\ Field(lresponse', F_queryType) = Requested(lmsg)
              /\ \A i \in 1..Len(invoked) :
                    Field(lresponse', invoked[i].name) = invoked[i].value
              /\ (\E d \in 1..Len(DefaultRegistrations) :
                        invoked = DefaultRegistrations[d].handler)
                    => Field(lresponse', F_status) = S_ok)]_vars

\* a capabilities query is answered by a handler registered after the default one
C25_Witness ==
    /\ lpc = "publish"
    /\ IsLegacyQuery(lmsg)
    /\ Requested(lmsg) = S_capabilities
    /\ invoked \in CustomHandlers
    /\ Field(lresponse, F_type) = S_response
    /\ Field(lresponse, F_status) = S_custom

\* C27: a query sent with sendQuery is recognised by the listener as a hedera-intel
\* query and delivering it yields a response; a response published by the listener
\* is on the topic as a message with protocol 'hedera-intel' and type 'response'.
C27_RoundTrip ==
    /\ (serviceDelivered > 0 /\ serviceTopic[serviceDelivered].by = "sendQuery")
          => (IsLegacyQuery(lmsg) /\ lpc # "ended")
    /\ \A k \in FromListener :
          /\ Field(serviceTopic[k].content.json, F_protocol) = S_hedera_intel
          /\ Field(serviceTopic[k].content.json, F_type) = S_response

(***************************************************************************)
(* One handler per message, self-published messages, startup of the legacy *)
(* listener, response order, advertised capabilities, missing topics.      *)
(***************************************************************************)
\* the try block of _handleInboundMessage selected a handler for the content: it
\* parsed, and reading msg.p did not throw
SelectedInTry(c) == JSONParse(c).kind \notin {"SyntaxError", "null"}

\* what was submitted for the n-th message
SubmittedFor(n) == {k \in 1..Len(published) : published[k].msg = n}

\* C31: every message delivered on the inbound channel is passed to exactly one of
\* the three handlers exactly once, even when that handler fails part-way: a message
\* the try block selected a handler for never reaches the natural-language call of
\* the catch block; and at most one response is published for a message.
C31_OneHandlerPerMessage ==
    /\ (channel = "inbound" /\ rpc # "idle" /\ SelectedInTry(rawContent)) => ~inCatch
    /\ \A n \in 1..arrivals :
          Cardinality({k \in SubmittedFor(n) : published[k].op # "connection_created"}) <= 1

\* the place in what the agent submitted of the response to the t-th message, 0
\* when there is none
ResponseAt(t) ==
    LET at == {k \in 1..Len(published) : published[k].msg = t /\ published[k].op = "message"}
    IN IF at = {} THEN 0 ELSE CHOOSE k \in at : TRUE

\* C34: for two messages m1 then m2 delivered on the same channel, the response to
\* m1 is published before the response to m2, whatever the durations of their
\* generator calls: the response to m2 is never there before the response to m1.
C34_ResponsesKeepChannelOrder ==
    \A t1 \in 1..Len(tasks), t2 \in 1..Len(tasks) :
        (/\ t1 < t2
         /\ tasks[t1].channel = tasks[t2].channel
         /\ tasks[t1].op = "message" /\ tasks[t2].op = "message"
         /\ ~tasks[t1].slow
         /\ ResponseAt(t2) # 0)
        => (ResponseAt(t1) # 0 /\ ResponseAt(t1) < ResponseAt(t2))

\* the calls of AgentProtocol.startListening that stand at one of these places
StartsAt(places) == {i \in 1..Len(starts) : starts[i] \in places}

\* C33: over any number of calls of AgentProtocol.startListening, sequential or
\* overlapping, at most one subscription is opened and at most one startup heartbeat
\* is sent; and isListening is true only when a subscription is established or being
\* established, so that after a failed heartbeat or subscribe a later call can open
\* the subscription.
C33_StartListeningRecoverable ==
    /\ Cardinality(StartsAt({"subscribed"})) <= 1
    /\ Cardinality(StartsAt({"heartbeat", "subscribed", "no_subscription"})) <= 1
    /\ isListening => StartsAt({"heartbeat", "subscribed"}) # {}

\* the operations that need a topic and the topic each of them needs
NeedsTopic(op) ==
    CASE op \in {"publishReport", "subscribe", "getTopicInfo"} -> topicId = Null
      [] op = "register" -> agentTopics.inbound = Null \/ agentTopics.outbound = Null
      [] op = "startListening" -> agentTopics.inbound = Null
      [] OTHER -> FALSE

\* C36: publishReport, subscribe and getTopicInfo called while no topic id is set,
\* register called before both topics are set, and the HCS-10 startListening called
\* before the inbound topic is set each raise an error, submit nothing, open no
\* subscription and leave the state of the object unchanged; topicId and client are
\* null on a fresh HederaService.
C36_FailFast ==
    /\ topicId = Null /\ client = Null
    /\ [][(ncalls' = ncalls + 1 /\ starts' = starts /\ NeedsTopic(lastCall'.op))
          => (/\ lastCall'.outcome = "threw"
              /\ UNCHANGED <<serviceTopic, published, opened, spc, subscriptions,
                             topicId, client, agentTopics, isListening, connections>>)]_vars

\* publishReport was called on a service with a client and no topic id, after
\* an earlier call, and threw
C36_Witness ==
    /\ lastCall = Call("publishReport", "threw")
    /\ topicId = Null
    /\ client # Null
    /\ ncalls > 1

\* the query types the capabilities response lists: those of the default handler
\* while it is the one registered for capabilities
Advertised(m) ==
    IF MapHas(m, S_capabilities) /\ MapGet(m, S_capabilities) = DefaultHandler(S_capabilities)
    THEN {AdvertisedCapabilities[i] : i \in 1..Len(AdvertisedCapabilities)}
    ELSE {}

\* C35: after any sequence of registerHandler calls, every query type the
\* capabilities response lists is one processMessage finds a handler for: a query
\* for it is never answered with the error for an unknown query type; and the keys
\* the heartbeat and the error response list are the registered query types.
C35_AdvertisedServed ==
    /\ []({HandlerKeys(protocolHandlers)[i] : i \in 1..Len(protocolHandlers)}
            = {registrations[i].queryType : i \in 1..Len(registrations)})
    /\ [][(serviceDelivered' = serviceDelivered + 1
            /\ IsLegacyQuery(lmsg')
            /\ Requested(lmsg') \in Advertised(protocolHandlers))
          => lpc' = "handler"]_vars

\* the responses the legacy listener has submitted
ListenerResponses == {k \in FromListener : serviceTopic[k] # LegacyHeartbeat}

\* C32: the agent never publishes a response to a message it published itself: its
\* acceptance on the inbound topic and its responses on a connection topic come back
\* through its subscriptions without a publish, and so do the heartbeat and the
\* responses of the legacy listener on its topic; the agent's publishes are no more
\* than the messages of its peers.
C32_NoSelfResponse ==
    /\ \A k \in 1..Len(published) : published[k].msg \notin EchoArrivals
    /\ arrivals \in EchoArrivals => rpc \in {"received", "ended"}
    /\ Len(published) <= arrivals - Cardinality(echoed)
    /\ (serviceDelivered > 0 /\ serviceTopic[serviceDelivered].by = "listener")
          => (lpc = "ended" /\ lresponse = NoResponse)
    /\ Cardinality(ListenerResponses)
          <= Cardinality({k \in 1..serviceDelivered : serviceTopic[k].by # "listener"})

\* a response of the agent on the connection topic came back and its handling ended
C32_Witness ==
    /\ \E e \in echoed :
          /\ e.arrival = arrivals
          /\ published[e.entry].topic = "connection"
          /\ published[e.entry].op = "message"
    /\ rpc = "ended"

====
